---------------------------- MODULE Spec2Model ----------------------------
(* A model of cloak/cloak_ast/ast.py: the type-name hierarchy with its      *)
(* implicit-conversion and combination rules, the privacy-annotation layer  *)
(* and the instance-target identity.  The functions of ast.py are pure, so  *)
(* every action draws the arguments of one call from bounded sets, applies  *)
(* the translated function and records the call in (op, args, res).         *)
(* A Python exception is a value: an outcome record whose exc field names   *)
(* the exception class.                                                     *)
EXTENDS Integers, Sequences, FiniteSets, TLC

VARIABLES op, args, res

vars == <<op, args, res>>

-----------------------------------------------------------------------------
(* Outcomes of a call: a returned value or a raised exception.              *)

Ret(v) == [exc |-> "", val |-> v]

Raise(e) == [exc |-> e, val |-> FALSE]

Raised(o) == o.exc # ""

\* Python `a or b` / `a and b` on outcomes: b is evaluated only when needed.
OrElse(a, b) == IF Raised(a) \/ a.val THEN a ELSE b

AndAlso(a, b) == IF Raised(a) \/ ~a.val THEN a ELSE b

-----------------------------------------------------------------------------
(* Python integers are unbounded; literal values reach 2^256 and beyond.    *)
(* A value is a sign and a magnitude, the magnitude a sequence of bits,     *)
(* least significant first, without leading zeros (so its length is         *)
(* int.bit_length()).                                                       *)

RECURSIVE NatBits(_)
NatBits(n) == IF n = 0 THEN <<>> ELSE <<n % 2>> \o NatBits(n \div 2)

FromInt(n) == IF n < 0 THEN [neg |-> TRUE, mag |-> NatBits(-n)]
                       ELSE [neg |-> FALSE, mag |-> NatBits(n)]

\* 2^k + d for d in -1..1, as a magnitude
PowMag(k, d) ==
    CASE d = 0  -> [i \in 1..(k + 1) |-> IF i = k + 1 THEN 1 ELSE 0]
      [] d = -1 -> [i \in 1..k |-> 1]
      [] d = 1  -> IF k = 0 THEN <<0, 1>>
                   ELSE [i \in 1..(k + 1) |-> IF i = 1 \/ i = k + 1 THEN 1 ELSE 0]

bit_length(v) == Len(v.mag)

\* 1 << n
Shl1(n) == [neg |-> FALSE, mag |-> PowMag(n, 0)]

BigZero == [neg |-> FALSE, mag |-> <<>>]

BigNeg(v) == IF v.mag = <<>> THEN v ELSE [neg |-> ~v.neg, mag |-> v.mag]

MagLess(a, b) ==
    \/ Len(a) < Len(b)
    \/ /\ Len(a) = Len(b)
       /\ \E i \in 1..Len(a) :
            /\ a[i] < b[i]
            /\ \A j \in (i + 1)..Len(a) : a[j] = b[j]

BigLess(a, b) ==
    CASE a.neg /\ ~b.neg -> TRUE
      [] ~a.neg /\ b.neg -> FALSE
      [] ~a.neg /\ ~b.neg -> MagLess(a.mag, b.mag)
      [] a.neg /\ b.neg -> MagLess(b.mag, a.mag)

BigLeq(a, b) == a = b \/ BigLess(a, b)


RECURSIVE MagToNat(_)
MagToNat(m) == IF m = <<>> THEN 0 ELSE m[1] + 2 * MagToNat(Tail(m))

-----------------------------------------------------------------------------
(* Names.  A type's name is a string; int(name[len(prefix):]) reads its     *)
(* trailing numeral and str(value) writes a literal's name.  A name is kept *)
(* as its text before the numeral and the numeral (absent: <<>>), so that   *)
(* string equality is equality of the two parts.                            *)

TName(pre, num) == [pre |-> pre, num |-> num]

NoNum == <<>>

\* f'int{w}', f'uint{w}'
NameWithWidth(pre, w) == TName(pre, <<FromInt(w)>>)

\* str(value) of a literal
str(v) == TName("", <<v>>)

\* int(name) of a literal's name
int(name) == name.num[1]

-----------------------------------------------------------------------------
(* The class hierarchy of the type names (isinstance).                      *)

ElementaryClasses == {"ElementaryTypeName", "BoolTypeName", "BooleanLiteralType",
                      "NumberTypeName", "NumberLiteralType", "IntTypeName",
                      "UintTypeName", "BytesTypeName", "StringTypeName"}

NumberClasses == {"NumberTypeName", "NumberLiteralType", "IntTypeName", "UintTypeName"}

UserDefinedClasses == {"UserDefinedTypeName", "EnumTypeName", "EnumValueTypeName",
                       "StructTypeName", "ContractTypeName", "AddressTypeName",
                       "AddressPayableTypeName"}

isinstance(t, base) ==
    CASE base = "ElementaryTypeName" -> t.cls \in ElementaryClasses
      [] base = "NumberTypeName" -> t.cls \in NumberClasses
      [] base = "UserDefinedTypeName" -> t.cls \in UserDefinedClasses
      [] OTHER -> t.cls = base

-----------------------------------------------------------------------------
(* Constructors.                                                            *)

BoolTypeName == [cls |-> "BoolTypeName", name |-> TName("bool", NoNum)]

BooleanLiteralType(b) ==
    [cls |-> "BooleanLiteralType", name |-> TName(IF b THEN "true" ELSE "false", NoNum)]

BytesTypeName(name) == [cls |-> "BytesTypeName", name |-> name]

StringTypeName == [cls |-> "StringTypeName", name |-> TName("string", NoNum)]

\* NumberTypeName.__init__; bitwidth is <<>> for None
NumberTypeName_init(cls, name, signed, bitwidth) ==
    [cls |-> cls, name |-> name, signed |-> signed,
     size |-> IF bitwidth = <<>>
              THEN (IF name.num # NoNum THEN MagToNat(name.num[1].mag) ELSE 0)
              ELSE bitwidth[1]]

\* NumberTypeName.any()
NumberTypeName_any == NumberTypeName_init("NumberTypeName", TName("", NoNum), TRUE, <<256>>)

IntTypeName(name) == NumberTypeName_init("IntTypeName", name, TRUE, <<>>)

UintTypeName(name) == NumberTypeName_init("UintTypeName", name, FALSE, <<>>)

\* NumberTypeName.elem_bitwidth
elem_bitwidth(t) == IF t.size = 0 THEN 256 ELSE t.size

\* math.ceil(bitwidth / 8.0) * 8, at least 8
RoundUp8(bitwidth) ==
    LET r == ((bitwidth + 7) \div 8) * 8 IN IF r > 8 THEN r ELSE 8

\* the bit count before rounding
LiteralBits(v) ==
    LET blen == bit_length(v)
    IN IF v.neg
       THEN (IF v # BigNeg(Shl1(blen - 1)) THEN blen + 1 ELSE blen)
       ELSE blen

\* NumberLiteralType.__init__: an outcome, the assertion may fail
NumberLiteralType(v) ==
    LET bitwidth == RoundUp8(LiteralBits(v))
    IN IF 8 <= bitwidth /\ bitwidth <= 256 /\ bitwidth % 8 = 0
       THEN Ret(NumberTypeName_init("NumberLiteralType", str(v), v.neg, <<bitwidth>>))
       ELSE Raise("AssertionError")

\* NumberLiteralType.value
value(t) == int(t.name)

\* can_represent with the upper bound taken as inclusive
can_represent_InclusiveHi(t, val) ==
    LET w == elem_bitwidth(t)
        lo == IF t.signed THEN BigNeg(Shl1(w - 1)) ELSE BigZero
        hi == IF t.signed THEN Shl1(w - 1) ELSE Shl1(w)
    IN BigLeq(lo, val) /\ BigLeq(val, hi)

\* NumberTypeName.can_represent
can_represent(t, val) ==
    LET w == elem_bitwidth(t)
        lo == IF t.signed THEN BigNeg(Shl1(w - 1)) ELSE BigZero
        hi == IF t.signed THEN Shl1(w - 1) ELSE Shl1(w)
    IN BigLeq(lo, val) /\ BigLess(val, hi)

\* NumberLiteralType.to_abstract_type
to_abstract_type(t) ==
    IF value(t).neg
    THEN IntTypeName(NameWithWidth("int", elem_bitwidth(t)))
    ELSE UintTypeName(NameWithWidth("uint", elem_bitwidth(t)))

-----------------------------------------------------------------------------
(* User-defined type names.  names is the list of Identifier nodes (node    *)
(* ids), target the definition set by symbol resolution: NoTarget while     *)
(* unresolved, else a record holding the definition's qualified name (the   *)
(* names of its identifiers).                                               *)

NoTarget == [kind |-> "None"]

Definition(qn) == [kind |-> "def", qn |-> qn]

UserDefinedTypeName(cls, names, target) == [cls |-> cls, names |-> names, target |-> target]

\* Identifier('<address>') and Identifier('<address_payable>') are fresh nodes
AddressTypeName == UserDefinedTypeName("AddressTypeName", <<"<address>">>, NoTarget)

AddressPayableTypeName ==
    UserDefinedTypeName("AddressPayableTypeName", <<"<address_payable>">>, NoTarget)

TupleType(types) == [cls |-> "TupleType", types |-> types]

\* Mapping.__init__; key_label is an Identifier node or NoneVal
Mapping(key_type, key_label, value_type) ==
    [cls |-> "Mapping", key_type |-> key_type, key_label |-> key_label,
     value_type |-> value_type, instantiated_key |-> [cls |-> "None"]]

\* Array.__init__; expr is None ([cls |-> "None"]), an int ([cls |-> "int"]),
\* which becomes a NumberLiteralExpr, or an expression node
Array(value_type, expr) ==
    [cls |-> "Array", value_type |-> value_type,
     expr |-> IF expr.cls = "int" THEN [cls |-> "NumberLiteralExpr", value |-> expr.value]
              ELSE expr]

\* TypeName.is_literal
is_literal(t) == t.cls \in {"NumberLiteralType", "BooleanLiteralType", "EnumValueTypeName"}

\* TypeName.is_address
is_address(t) == t.cls \in {"AddressTypeName", "AddressPayableTypeName"}

\* TypeName.is_numeric
is_numeric(t) == isinstance(t, "NumberTypeName")

-----------------------------------------------------------------------------
(* Expressions used as privacy labels.  A node has an identity (id); the    *)
(* classes without __eq__ compare by identity.                              *)

NoneVal == [cls |-> "None"]

SingletonClasses == {"AllExpr", "MeExpr", "TeeExpr"}

Expr(cls, id, target) == [cls |-> cls, id |-> id, target |-> target]

AllExpr(id) == Expr("AllExpr", id, NoTarget)

MeExpr(id) == Expr("MeExpr", id, NoTarget)

TeeExpr(id) == Expr("TeeExpr", id, NoTarget)

\* an IdentifierDeclaration node and the Identifier node it owns
Declaration(cls, id) == [kind |-> "decl", cls |-> cls, id |-> id,
                         idf |-> [cls |-> "Identifier", id |-> id]]

\* a Mapping type as the target of a key-label identifier
MappingTarget(key) == [kind |-> "Mapping", instantiated_key |-> key]

\* a == b on expression nodes, Identifier nodes and None: MeExpr, AllExpr and
\* TeeExpr define __eq__ by class, every other node inherits object identity
IdentityEq(a, b) == a.cls = b.cls /\ a.id = b.id

ExprEq(a, b) ==
    CASE a.cls = "None" \/ b.cls = "None" -> a.cls = b.cls
      [] a.cls \in SingletonClasses -> b.cls = a.cls
      [] b.cls \in SingletonClasses -> FALSE
      [] OTHER -> IdentityEq(a, b)

\* Expression.is_all_expr
is_all_expr(e) == ExprEq(e, AllExpr(0))

\* Expression.is_me_expr
is_me_expr(e) == ExprEq(e, MeExpr(0))

\* Expression.is_tee_expr
is_tee_expr(e) == ExprEq(e, TeeExpr(0))

\* Expression.privacy_annotation_label: an outcome holding the label key
RECURSIVE privacy_annotation_label(_)
privacy_annotation_label(e) ==
    IF e.cls = "IdentifierExpr"
    THEN CASE e.target.kind = "Mapping" ->
                IF e.target.instantiated_key.cls = "None"
                THEN Raise("AttributeError")
                ELSE privacy_annotation_label(e.target.instantiated_key)
           [] e.target.kind = "decl" -> Ret(e.target.idf)
           [] OTHER -> Raise("AttributeError")
    ELSE IF is_all_expr(e) \/ is_me_expr(e) \/ is_tee_expr(e)
         THEN Ret(e)
         ELSE Ret(NoneVal)

-----------------------------------------------------------------------------
(* Annotated type names.                                                    *)

\* AnnotatedTypeName.__init__; privacy_annotation is NoneVal for None
AnnotatedTypeName(type_name, privacy_annotation) ==
    [type_name |-> type_name,
     had_privacy_annotation |-> privacy_annotation.cls # "None",
     privacy_annotation |-> IF privacy_annotation.cls # "None"
                            THEN privacy_annotation ELSE AllExpr(0)]

-----------------------------------------------------------------------------
(* Equality of type names and annotated type names (__eq__).                *)

\* the prefix of two qualified names that zip() pairs up
ZipLen(a, b) == IF Len(a) < Len(b) THEN Len(a) ELSE Len(b)

\* UserDefinedTypeName.__eq__
UserDefinedTypeName_eq(self, other) ==
    IF ~isinstance(other, "UserDefinedTypeName") THEN Ret(FALSE)
    ELSE IF self.target.kind = "None" \/ other.target.kind = "None"
         THEN Raise("AttributeError")
         ELSE Ret(\A i \in 1..ZipLen(self.target.qn, other.target.qn) :
                     self.target.qn[i] = other.target.qn[i])

\* the classes whose __eq__ is their own (not inherited)
DefinesEq == {"ElementaryTypeName", "BoolTypeName", "BooleanLiteralType",
              "NumberTypeName", "NumberLiteralType", "UserDefinedTypeName",
              "AddressTypeName", "AddressPayableTypeName", "TupleType", "Mapping",
              "Array"}

\* type(b) is a proper subclass of type(a)
ProperSubclass(b, a) == b.cls # a.cls /\ isinstance(b, a.cls)

RECURSIVE TypeName_eq(_, _), PyEq(_, _), AnnotatedTypeName_eq(_, _), check_component_wise_eq(_, _, _)
RECURSIVE Mapping_eq(_, _), Array_eq(_, _)

\* a == b: the reflected method of a proper subclass that overrides it goes first
PyEq(a, b) ==
    IF ProperSubclass(b, a) /\ b.cls \in DefinesEq
    THEN TypeName_eq(b, a)
    ELSE TypeName_eq(a, b)

\* AnnotatedTypeName.__eq__
AnnotatedTypeName_eq(self, other) ==
    AndAlso(PyEq(self.type_name, other.type_name),
            Ret(ExprEq(self.privacy_annotation, other.privacy_annotation)))

\* TupleType.check_component_wise with f = (x == y), from component i on
check_component_wise_eq(self, other, i) ==
    IF i > Len(self.types) THEN Ret(TRUE)
    ELSE LET r == AnnotatedTypeName_eq(self.types[i], other.types[i])
         IN IF Raised(r) THEN r
            ELSE IF ~r.val THEN Ret(FALSE)
            ELSE check_component_wise_eq(self, other, i + 1)

\* self.__eq__(other), by the class of self
TypeName_eq(self, other) ==
    CASE self.cls = "BoolTypeName" -> Ret(isinstance(other, "BoolTypeName"))
      [] self.cls = "BooleanLiteralType" -> Ret(isinstance(other, "BooleanLiteralType"))
      [] self.cls = "NumberLiteralType" -> Ret(isinstance(other, "NumberLiteralType"))
      [] self.cls \in {"NumberTypeName", "IntTypeName", "UintTypeName"} ->
            Ret(isinstance(other, "NumberTypeName") /\ self.name = other.name)
      [] self.cls \in {"BytesTypeName", "StringTypeName"} ->
            Ret(isinstance(other, "ElementaryTypeName") /\ self.name = other.name)
      [] self.cls = "AddressTypeName" -> Ret(isinstance(other, "AddressTypeName"))
      [] self.cls = "AddressPayableTypeName" -> Ret(isinstance(other, "AddressPayableTypeName"))
      [] self.cls \in {"EnumTypeName", "EnumValueTypeName", "StructTypeName",
                       "ContractTypeName"} -> UserDefinedTypeName_eq(self, other)
      [] self.cls = "TupleType" ->
            IF isinstance(other, "TupleType")
            THEN (IF Len(self.types) # Len(other.types) THEN Ret(FALSE)
                  ELSE check_component_wise_eq(self, other, 1))
            ELSE Ret(FALSE)
      [] self.cls = "Mapping" -> Mapping_eq(self, other)
      [] self.cls = "Array" -> Array_eq(self, other)

\* Mapping.__eq__ that also compares the key labels
Mapping_eq_WithKeyLabel(self, other) ==
    IF isinstance(other, "Mapping")
    THEN AndAlso(PyEq(self.key_type, other.key_type),
                 AndAlso(Ret(self.key_label = other.key_label),
                         AnnotatedTypeName_eq(self.value_type, other.value_type)))
    ELSE Ret(FALSE)

\* Mapping.__eq__
Mapping_eq(self, other) ==
    IF isinstance(other, "Mapping")
    THEN AndAlso(PyEq(self.key_type, other.key_type),
                 AnnotatedTypeName_eq(self.value_type, other.value_type))
    ELSE Ret(FALSE)

\* Array.__eq__; != is the negation of AnnotatedTypeName.__eq__
Array_eq(self, other) ==
    IF ~isinstance(other, "Array") THEN Ret(FALSE)
    ELSE LET same == AnnotatedTypeName_eq(self.value_type, other.value_type)
         IN IF Raised(same) THEN same
            ELSE IF ~same.val THEN Ret(FALSE)
            ELSE IF /\ self.expr.cls = "NumberLiteralExpr"
                    /\ other.expr.cls = "NumberLiteralExpr"
                    /\ self.expr.value = other.expr.value
                 THEN Ret(TRUE)
            ELSE IF self.expr.cls = "None" /\ other.expr.cls = "None" THEN Ret(TRUE)
            ELSE Ret(FALSE)

-----------------------------------------------------------------------------
(* Implicit conversion.                                                     *)

\* TypeName.implicitly_convertible_to
TypeName_implicitly_convertible_to(self, expected) == PyEq(expected, self)

\* NumberTypeName.implicitly_convertible_to
NumberTypeName_implicitly_convertible_to(self, expected) ==
    OrElse(TypeName_implicitly_convertible_to(self, expected),
           Ret(expected.cls = "NumberTypeName"))

\* the literal conversion with the width test of the address case left out
NumberLiteralType_implicitly_convertible_to_AnyWidth(self, expected) ==
    IF is_numeric(expected) /\ ~is_literal(expected)
    THEN Ret(can_represent(expected, value(self)))
    ELSE IF is_address(expected) /\ ~self.signed
         THEN Ret(TRUE)
         ELSE NumberTypeName_implicitly_convertible_to(self, expected)

\* NumberLiteralType.implicitly_convertible_to
NumberLiteralType_implicitly_convertible_to(self, expected) ==
    IF is_numeric(expected) /\ ~is_literal(expected)
    THEN Ret(can_represent(expected, value(self)))
    ELSE IF is_address(expected) /\ elem_bitwidth(self) = 160 /\ ~self.signed
         THEN Ret(TRUE)
         ELSE NumberTypeName_implicitly_convertible_to(self, expected)

\* the signed widening with the width comparison left out
IntTypeName_implicitly_convertible_to_AnyWidth(self, expected) ==
    OrElse(NumberTypeName_implicitly_convertible_to(self, expected),
           Ret(isinstance(expected, "IntTypeName")))

\* the signed widening accepting any numeric target of sufficient width
IntTypeName_implicitly_convertible_to_AnySign(self, expected) ==
    OrElse(NumberTypeName_implicitly_convertible_to(self, expected),
           Ret(isinstance(expected, "NumberTypeName") /\ ~is_literal(expected)
               /\ elem_bitwidth(expected) >= elem_bitwidth(self)))

\* IntTypeName.implicitly_convertible_to
IntTypeName_implicitly_convertible_to(self, expected) ==
    OrElse(NumberTypeName_implicitly_convertible_to(self, expected),
           Ret(isinstance(expected, "IntTypeName")
               /\ elem_bitwidth(expected) >= elem_bitwidth(self)))

\* UintTypeName.implicitly_convertible_to
UintTypeName_implicitly_convertible_to(self, expected) ==
    OrElse(NumberTypeName_implicitly_convertible_to(self, expected),
           Ret(isinstance(expected, "UintTypeName")
               /\ elem_bitwidth(expected) >= elem_bitwidth(self)))

\* BooleanLiteralType.implicitly_convertible_to
BooleanLiteralType_implicitly_convertible_to(self, expected) ==
    OrElse(TypeName_implicitly_convertible_to(self, expected),
           Ret(isinstance(expected, "BoolTypeName")))

\* self.names[:-1]
AllButLast(names) == SubSeq(names, 1, Len(names) - 1)

\* EnumValueTypeName.implicitly_convertible_to
EnumValueTypeName_implicitly_convertible_to(self, expected) ==
    OrElse(TypeName_implicitly_convertible_to(self, expected),
           Ret(isinstance(expected, "EnumTypeName")
               /\ expected.names = AllButLast(self.names)))

\* AddressPayableTypeName.implicitly_convertible_to
AddressPayableTypeName_implicitly_convertible_to(self, expected) ==
    OrElse(TypeName_implicitly_convertible_to(self, expected),
           PyEq(expected, AddressTypeName))

RECURSIVE implicitly_convertible_to(_, _), check_component_wise_conv(_, _, _)

\* TupleType.check_component_wise with f = implicitly_convertible_to of the
\* components' type names, from component i on
check_component_wise_conv(self, other, i) ==
    IF i > Len(self.types) THEN Ret(TRUE)
    ELSE LET r == implicitly_convertible_to(self.types[i].type_name, other.types[i].type_name)
         IN IF Raised(r) THEN r
            ELSE IF ~r.val THEN Ret(FALSE)
            ELSE check_component_wise_conv(self, other, i + 1)

\* TupleType.implicitly_convertible_to
TupleType_implicitly_convertible_to(self, expected) ==
    IF isinstance(expected, "TupleType")
    THEN (IF Len(self.types) # Len(expected.types) THEN Ret(FALSE)
          ELSE check_component_wise_conv(self, expected, 1))
    ELSE Ret(FALSE)

\* self.implicitly_convertible_to(expected), dispatched on the class of self
implicitly_convertible_to(self, expected) ==
    CASE self.cls = "NumberLiteralType" -> NumberLiteralType_implicitly_convertible_to(self, expected)
      [] self.cls = "NumberTypeName" -> NumberTypeName_implicitly_convertible_to(self, expected)
      [] self.cls = "IntTypeName" -> IntTypeName_implicitly_convertible_to(self, expected)
      [] self.cls = "UintTypeName" -> UintTypeName_implicitly_convertible_to(self, expected)
      [] self.cls = "BooleanLiteralType" -> BooleanLiteralType_implicitly_convertible_to(self, expected)
      [] self.cls = "EnumValueTypeName" -> EnumValueTypeName_implicitly_convertible_to(self, expected)
      [] self.cls = "AddressPayableTypeName" -> AddressPayableTypeName_implicitly_convertible_to(self, expected)
      [] self.cls = "TupleType" -> TupleType_implicitly_convertible_to(self, expected)
      [] OTHER -> TypeName_implicitly_convertible_to(self, expected)

-----------------------------------------------------------------------------
(* Compatibility and combination of type names.                             *)

RECURSIVE compatible_with(_, _), check_component_wise_compat(_, _, _)

\* TypeName.compatible_with
TypeName_compatible_with(self, other_type) ==
    OrElse(implicitly_convertible_to(self, other_type),
           implicitly_convertible_to(other_type, self))

\* TupleType.check_component_wise with f = compatible_with of the components'
\* type names, from component i on
check_component_wise_compat(self, other, i) ==
    IF i > Len(self.types) THEN Ret(TRUE)
    ELSE LET r == compatible_with(self.types[i].type_name, other.types[i].type_name)
         IN IF Raised(r) THEN r
            ELSE IF ~r.val THEN Ret(FALSE)
            ELSE check_component_wise_compat(self, other, i + 1)

\* self.compatible_with(other_type); TupleType overrides it
compatible_with(self, other_type) ==
    IF self.cls = "TupleType"
    THEN (IF isinstance(other_type, "TupleType")
          THEN (IF Len(self.types) # Len(other_type.types) THEN Ret(FALSE)
                ELSE check_component_wise_compat(self, other_type, 1))
          ELSE Ret(FALSE))
    ELSE TypeName_compatible_with(self, other_type)

\* the string 'lit'
LitVal == [cls |-> "lit"]

DummyAnnotation == Expr("DummyAnnotation", 0, NoTarget)

\* TypeName.combined_type
TypeName_combined_type(self, other_type, convert_literals) ==
    LET c1 == implicitly_convertible_to(other_type, self)
        c2 == implicitly_convertible_to(self, other_type)
    IN IF Raised(c1) THEN c1
       ELSE IF c1.val THEN Ret(self)
       ELSE IF Raised(c2) THEN c2
       ELSE IF c2.val THEN Ret(other_type)
       ELSE Ret(NoneVal)

\* BooleanLiteralType.combined_type
BooleanLiteralType_combined_type(self, other_type, convert_literals) ==
    IF isinstance(other_type, "BooleanLiteralType")
    THEN (IF convert_literals THEN Ret(BoolTypeName) ELSE Ret(LitVal))
    ELSE TypeName_combined_type(self, other_type, convert_literals)

\* NumberLiteralType.combined_type
NumberLiteralType_combined_type(self, other_type, convert_literals) ==
    IF isinstance(other_type, "NumberLiteralType")
    THEN (IF convert_literals
          THEN TypeName_combined_type(to_abstract_type(self), to_abstract_type(other_type),
                                      convert_literals)
          ELSE Ret(LitVal))
    ELSE TypeName_combined_type(self, other_type, convert_literals)

RECURSIVE combined_type(_, _, _), TupleType_combine_from(_, _, _, _)

\* the list comprehension of TupleType.combined_type, from component i on
TupleType_combine_from(self, other_type, convert_literals, i) ==
    IF i > Len(self.types) THEN Ret(<<>>)
    ELSE LET c == combined_type(self.types[i].type_name, other_type.types[i].type_name,
                                convert_literals)
             rest == TupleType_combine_from(self, other_type, convert_literals, i + 1)
         IN IF Raised(c) THEN c
            ELSE IF Raised(rest) THEN rest
            ELSE Ret(<<AnnotatedTypeName(c.val, DummyAnnotation)>> \o rest.val)

\* TupleType.combined_type
TupleType_combined_type(self, other_type, convert_literals) ==
    IF ~isinstance(other_type, "TupleType") \/ Len(self.types) # Len(other_type.types)
    THEN Ret(NoneVal)
    ELSE LET l == TupleType_combine_from(self, other_type, convert_literals, 1)
         IN IF Raised(l) THEN l ELSE Ret(TupleType(l.val))

\* self.combined_type(other_type, convert_literals), dispatched on the class of self
combined_type(self, other_type, convert_literals) ==
    CASE self.cls = "NumberLiteralType" ->
            NumberLiteralType_combined_type(self, other_type, convert_literals)
      [] self.cls = "BooleanLiteralType" ->
            BooleanLiteralType_combined_type(self, other_type, convert_literals)
      [] self.cls = "TupleType" -> TupleType_combined_type(self, other_type, convert_literals)
      [] OTHER -> TypeName_combined_type(self, other_type, convert_literals)

-----------------------------------------------------------------------------
(* Combination of privacy labels.  The oracle (PartitionState) is an input: *)
(* NoAnalysis for None, else the set of ordered pairs of label keys that    *)
(* same_partition reports as co-owned.                                      *)

NoAnalysis == [none |-> TRUE, same |-> {}]

Analysis(pairs) == [none |-> FALSE, same |-> pairs]

\* a label key as the oracle sees it: MeExpr, AllExpr and TeeExpr hash and
\* compare by class, an Identifier by identity
KeyOf(k) == IF k.cls \in SingletonClasses THEN <<k.cls, 0>> ELSE <<k.cls, k.id>>

RECURSIVE combined_privacy(_, _, _), combined_privacy_from(_, _, _, _)

\* the list comprehension over the zipped components, from component i on
combined_privacy_from(self, analysis, other, i) ==
    IF i > Len(self.type_name.types) THEN Ret(<<>>)
    ELSE LET c == combined_privacy(self.type_name.types[i], analysis, other.type_name.types[i])
             rest == combined_privacy_from(self, analysis, other, i + 1)
         IN IF Raised(c) THEN c
            ELSE IF Raised(rest) THEN rest
            ELSE Ret(<<c.val>> \o rest.val)

\* the scalar branch of AnnotatedTypeName.combined_privacy
combined_privacy_scalar(self, analysis, other) ==
    LET p_expected == privacy_annotation_label(other.privacy_annotation)
        p_actual == privacy_annotation_label(self.privacy_annotation)
    IN IF Raised(p_expected) THEN p_expected
       ELSE IF Raised(p_actual) THEN p_actual
       ELSE IF p_expected.val.cls # "None" /\ p_actual.val.cls # "None"
            THEN (IF \/ ExprEq(p_expected.val, p_actual.val)
                     \/ (~analysis.none
                         /\ <<KeyOf(p_expected.val), KeyOf(p_actual.val)>> \in analysis.same)
                  THEN Ret(self.privacy_annotation)
                  ELSE IF is_all_expr(self.privacy_annotation)
                       THEN Ret(other.privacy_annotation)
                       ELSE Ret(NoneVal))
            ELSE Ret(NoneVal)

\* AnnotatedTypeName.combined_privacy
combined_privacy(self, analysis, other) ==
    IF isinstance(self.type_name, "TupleType")
    THEN (IF isinstance(other.type_name, "TupleType")
             /\ Len(self.type_name.types) = Len(other.type_name.types)
          THEN combined_privacy_from(self, analysis, other, 1)
          ELSE Raise("AssertionError"))
    ELSE combined_privacy_scalar(self, analysis, other)

-----------------------------------------------------------------------------
(* Instance targets.  A location expression is a node with an id and the    *)
(* target symbol resolution sets; InstanceTarget is a 3-tuple.              *)

Identifier(id, name) == [cls |-> "Identifier", id |-> id, name |-> name]

IdentifierExpr(id, target) == Expr("IdentifierExpr", id, target)

\* MemberAccessExpr(expr, member); its own target is set later
MemberAccessExpr(id, expr, member) ==
    [cls |-> "MemberAccessExpr", id |-> id, target |-> NoTarget, expr |-> expr,
     member |-> member]

\* IndexExpr(arr, key); its own target is set later
IndexExpr(id, arr, key) ==
    [cls |-> "IndexExpr", id |-> id, target |-> NoTarget, arr |-> arr, key |-> key]

\* IndexExpr.get_leftmost_identifier
RECURSIVE get_leftmost_identifier(_)
get_leftmost_identifier(self) ==
    IF self.arr.cls = "IndexExpr" THEN get_leftmost_identifier(self.arr)
    ELSE IF self.arr.cls # "IdentifierExpr" THEN Raise("CloakCompilerError")
    ELSE Ret(self.arr)

\* the declaration classes InstanceTarget accepts as its first component
TargetDeclarationClasses == {"VariableDeclaration", "Parameter", "StateVariableDeclaration"}

\* the closing assert accepting a declaration of any class
InstanceTarget_new_AnyDeclaration(target_key) ==
    IF target_key[1].kind = "decl"
    THEN Ret([cls |-> "InstanceTarget", key |-> target_key])
    ELSE Raise("AssertionError")

\* the closing assert of InstanceTarget.__new__ and the tuple it builds
InstanceTarget_new(target_key) ==
    IF target_key[1].kind = "decl" /\ target_key[1].cls \in TargetDeclarationClasses
    THEN Ret([cls |-> "InstanceTarget", key |-> target_key])
    ELSE Raise("AssertionError")

\* InstanceTarget.__new__ with an identifier expression keeping the node as the
\* third component
InstanceTarget_KeepsNode(expr) ==
    CASE expr.cls = "InstanceTarget" -> InstanceTarget_new(expr.key)
      [] expr.cls = "VariableDeclaration" -> InstanceTarget_new(<<expr, NoneVal, NoneVal>>)
      [] expr.cls = "IdentifierExpr" -> InstanceTarget_new(<<expr.target, NoneVal, expr>>)
      [] expr.cls = "MemberAccessExpr" ->
            InstanceTarget_new(<<expr.expr.target, expr.member, NoneVal>>)
      [] expr.cls = "IndexExpr" ->
            LET leftmost == get_leftmost_identifier(expr)
            IN IF Raised(leftmost) THEN leftmost
               ELSE InstanceTarget_new(<<leftmost.val.target, expr.key, expr>>)
      [] OTHER -> Raise("AssertionError")

\* InstanceTarget.__new__
InstanceTarget(expr) ==
    CASE expr.cls = "InstanceTarget" -> InstanceTarget_new(expr.key)
      [] expr.cls = "VariableDeclaration" -> InstanceTarget_new(<<expr, NoneVal, NoneVal>>)
      [] expr.cls = "IdentifierExpr" -> InstanceTarget_new(<<expr.target, NoneVal, NoneVal>>)
      [] expr.cls = "MemberAccessExpr" ->
            InstanceTarget_new(<<expr.expr.target, expr.member, NoneVal>>)
      [] expr.cls = "IndexExpr" ->
            LET leftmost == get_leftmost_identifier(expr)
            IN IF Raised(leftmost) THEN leftmost
               ELSE InstanceTarget_new(<<leftmost.val.target, expr.key, expr>>)
      [] OTHER -> Raise("AssertionError")

\* InstanceTarget.__eq__: both are InstanceTargets and the tuples are equal
\* component by component
InstanceTarget_eq(self, other) ==
    /\ other.cls = "InstanceTarget"
    /\ \A i \in 1..3 : ExprEq(self.key[i], other.key[i])

\* hash(x) of a component: MeExpr, AllExpr and TeeExpr hash their name, None
\* and every other node hash by identity
ObjectHash(x) ==
    CASE x.cls = "None" -> <<"None", 0>>
      [] x.cls \in SingletonClasses -> <<x.cls, 0>>
      [] OTHER -> <<x.cls, x.id>>

\* InstanceTarget.__hash__: the hash of the plain tuple of the components
InstanceTarget_hash(self) == [i \in 1..3 |-> ObjectHash(self.key[i])]

-----------------------------------------------------------------------------
(* Contract definitions.  A contract holds its units in order; names is the *)
(* table symbol resolution fills, from a name to the unit that declares it. *)

\* a unit of a contract: a function or constructor definition (kind says
\* which) or a state variable declaration; id tells the nodes apart
Unit(cls, kind, id) == [cls |-> cls, kind |-> kind, id |-> id]

\* ContractDefinition.__init__, with the names table of the AST node
ContractDefinition(units, names) == [cls |-> "ContractDefinition", units |-> units, names |-> names]

\* ContractDefinition.constructor_definitions
RECURSIVE constructor_definitions_from(_, _)
constructor_definitions_from(units, i) ==
    IF i > Len(units) THEN <<>>
    ELSE (IF units[i].cls = "ConstructorOrFunctionDefinition" /\ units[i].kind = "constructor"
          THEN <<units[i]>> ELSE <<>>) \o constructor_definitions_from(units, i + 1)

constructor_definitions(self) == constructor_definitions_from(self.units, 1)

\* FunctionPrivacyType
PUB == 0

ZKP == 1

MPC == 2

TEE == 3

\* ConstructorOrFunctionDefinition.is_zkp
is_zkp(self) == ZKP = self.privacy_type

\* Parameter.__init__; storage_location is "None" for None
Parameter(annotated_type, idf, storage_location) ==
    [cls |-> "Parameter", annotated_type |-> annotated_type, idf |-> idf,
     storage_location |-> storage_location]

\* cfg.return_zk_var_name and cfg.return_tee_var_name
return_zk_var_name == "cfg.return_zk_var_name"

return_tee_var_name == "cfg.return_tee_var_name"

\* the reference to the idx-th element of return_var_decls
ReturnVarDecl(idx) == [ref |-> "return_var_decls", idx |-> idx]

\* VariableDeclaration([], rp.annotated_type, Identifier(name), rp.storage_location)
\* built for enumerate index idx, after 'vd.idf.parent = vd'
return_var_decl(prefix, idx, rp) ==
    [cls |-> "VariableDeclaration", keywords |-> <<>>, annotated_type |-> rp.annotated_type,
     idf |-> [cls |-> "Identifier", name |-> prefix \o "_" \o ToString(idx),
              parent |-> ReturnVarDecl(idx)],
     storage_location |-> rp.storage_location]

\* the list of return_var_decls named with the prefix of verified functions
return_var_decls_ZkPrefix(self) ==
    [i \in 1..Len(self.return_parameters) |->
        return_var_decl(return_zk_var_name, i - 1, self.return_parameters[i])]

\* the list comprehension over enumerate(self.return_parameters) and the loop
\* setting the parents
return_var_decls(self) ==
    [i \in 1..Len(self.return_parameters) |->
        return_var_decl(IF is_zkp(self) THEN return_zk_var_name ELSE return_tee_var_name,
                        i - 1, self.return_parameters[i])]

\* ConstructorOrFunctionDefinition.__init__ with empty parameter and modifier
\* lists: assert idf fails for None; return_parameters is None or a list
\* ([kind |-> "None"], [kind |-> "list", items |-> ...]); id 0 marks a new node
ConstructorOrFunctionDefinition(idf, return_parameters, body, kind) ==
    IF idf.cls = "None" THEN Raise("AssertionError")
    ELSE LET self == [return_parameters |-> IF return_parameters.kind = "None" THEN <<>>
                                            ELSE return_parameters.items,
                      privacy_type |-> PUB]
         IN Ret([cls |-> "ConstructorOrFunctionDefinition", kind |-> kind, id |-> 0,
                 idf |-> idf, parameters |-> <<>>, body |-> body, parent |-> NoneVal,
                 return_parameters |-> self.return_parameters,
                 privacy_type |-> self.privacy_type,
                 return_var_decls |-> return_var_decls(self)])

\* Block([])
EmptyBlock == [cls |-> "Block", statements |-> <<>>]

\* ContractDefinition.__getitem__: the outcome holds the returned node (ret)
\* and the contract as the call leaves it (self)
ContractDefinition_getitem(self, key) ==
    IF key = "constructor"
    THEN CASE Len(constructor_definitions(self)) = 0 ->
                LET c == ConstructorOrFunctionDefinition(NoneVal, [kind |-> "None"], EmptyBlock, "function")
                IN IF Raised(c) THEN c
                   ELSE Ret([ret |-> [c.val EXCEPT !.parent = self], self |-> self])
           [] Len(constructor_definitions(self)) = 1 ->
                Ret([ret |-> constructor_definitions(self)[1], self |-> self])
           [] OTHER -> Raise("ValueError")
    ELSE IF key \in DOMAIN self.names
         THEN Ret([ret |-> self.units[self.names[key]], self |-> self])
         ELSE Raise("KeyError")

-----------------------------------------------------------------------------
(* Statement lists.  A statement is a node with an id; what a transform     *)
(* returns is a node, a list of nodes, or None.                             *)

Stmt(id) == [cls |-> "Statement", id |-> id]

\* the values a transform returns
ReturnsNone == [kind |-> "None"]

ReturnsNode(n) == [kind |-> "node", node |-> n]

ReturnsList(l) == [kind |-> "list", items |-> l]

\* the loop of StatementList.process_children with a returned list put in front
\* of the statements collected so far
RECURSIVE process_children_loop_Prepend(_, _, _, _, _)
process_children_loop_Prepend(statements, f, idx, new_stmts, calls) ==
    IF idx > Len(statements) THEN [statements |-> new_stmts, calls |-> calls]
    ELSE LET stmt == statements[idx]
             new_stmt == f[stmt.id]
         IN process_children_loop_Prepend(statements, f, idx + 1,
                CASE new_stmt.kind = "None" -> new_stmts
                  [] new_stmt.kind = "list" -> new_stmt.items \o new_stmts
                  [] OTHER -> Append(new_stmts, new_stmt.node),
                Append(calls, stmt))

\* the loop of StatementList.process_children from index idx on: new_stmts are
\* the statements collected so far, calls the arguments f was applied to
RECURSIVE process_children_loop(_, _, _, _, _)
process_children_loop(statements, f, idx, new_stmts, calls) ==
    IF idx > Len(statements) THEN [statements |-> new_stmts, calls |-> calls]
    ELSE LET stmt == statements[idx]
             new_stmt == f[stmt.id]
         IN process_children_loop(statements, f, idx + 1,
                CASE new_stmt.kind = "None" -> new_stmts
                  [] new_stmt.kind = "list" -> new_stmts \o new_stmt.items
                  [] OTHER -> Append(new_stmts, new_stmt.node),
                Append(calls, stmt))

\* StatementList.process_children: the statements it leaves in self and the
\* calls of f it made
StatementList_process_children(statements, f) ==
    process_children_loop(statements, f, 1, <<>>, <<>>)

-----------------------------------------------------------------------------
(* Children.  A node is its class and the values its constructor stored in  *)
(* its child fields: a node, None, or a list of nodes.                      *)

Absent == [kind |-> "None"]

Child(n) == [kind |-> "node", node |-> n]

Children(l) == [kind |-> "list", items |-> l]

\* a child node
Leaf(id) == [cls |-> "AST", id |-> id]

\* the fields the constructor of each class stores child nodes in, in the order
\* of the constructor
ChildFields ==
    [IfStatement |-> <<"condition", "then_branch", "else_branch">>,
     WhileStatement |-> <<"condition", "body">>,
     DoWhileStatement |-> <<"body", "condition">>,
     ForStatement |-> <<"init", "condition", "update", "body">>,
     ReturnStatement |-> <<"expr">>,
     EmitStatement |-> <<"expr", "args">>,
     AssignmentStatement |-> <<"lhs", "rhs">>,
     VariableDeclarationStatement |-> <<"variable_declaration", "expr">>,
     IndexExpr |-> <<"arr", "key">>,
     MemberAccessExpr |-> <<"expr", "member">>,
     ReclassifyExpr |-> <<"expr", "privacy">>,
     FunctionCallExpr |-> <<"func", "args">>,
     TupleExpr |-> <<"elements">>,
     CatchClause |-> <<"idf", "args", "body">>,
     TryStatement |-> <<"expr", "returnParameters", "body", "catchClauses">>,
     RevertStatement |-> <<"expr", "args">>,
     TupleVariableDeclarationStatement |-> <<"vs", "expr">>,
     RangeIndexExpr |-> <<"arr", "start", "end">>,
     SliceExpr |-> <<"arr", "base">>,
     InlineArrayExpr |-> <<"exprs">>]

\* the fields process_children of each class passes to f, in order; a class
\* without process_children inherits the empty one of AST
ProcessedFields ==
    [IfStatement |-> <<"condition", "then_branch", "else_branch">>,
     WhileStatement |-> <<"condition", "body">>,
     DoWhileStatement |-> <<"body", "condition">>,
     ForStatement |-> <<"init", "condition", "update", "body">>,
     ReturnStatement |-> <<"expr">>,
     EmitStatement |-> <<"expr", "args">>,
     AssignmentStatement |-> <<"lhs", "rhs">>,
     VariableDeclarationStatement |-> <<"variable_declaration", "expr">>,
     IndexExpr |-> <<"arr", "key">>,
     MemberAccessExpr |-> <<"expr", "member">>,
     ReclassifyExpr |-> <<"expr", "privacy">>,
     FunctionCallExpr |-> <<"func", "args">>,
     TupleExpr |-> <<"elements">>,
     CatchClause |-> <<>>,
     TryStatement |-> <<>>,
     RevertStatement |-> <<>>,
     TupleVariableDeclarationStatement |-> <<>>,
     RangeIndexExpr |-> <<>>,
     SliceExpr |-> <<>>,
     InlineArrayExpr |-> <<>>]

\* the arguments f receives for one field: the value itself (None included), or
\* for a list every element; EmitStatement passes args only when it is set
FieldCalls(cls, field, v) ==
    CASE v.kind = "list" -> v.items
      [] v.kind = "node" -> <<v.node>>
      [] cls = "EmitStatement" /\ field = "args" -> <<>>
      [] OTHER -> <<NoneVal>>

\* self.process_children(f) from the i-th processed field on: the arguments f
\* is applied to, in order
RECURSIVE process_children(_, _)
process_children(self, i) ==
    LET fields == ProcessedFields[self.cls]
    IN IF i > Len(fields) THEN <<>>
       ELSE FieldCalls(self.cls, fields[i], self.fields[fields[i]])
                \o process_children(self, i + 1)

\* ChildListBuilder.add_child collects what is not None
add_child(calls) == SelectSeq(calls, LAMBDA ast : ast.cls # "None")

\* AST.children
children(self) == add_child(process_children(self, 1))

-----------------------------------------------------------------------------
(* Assignment statements: construction (build_ast.py) and code generation   *)
(* (CodeVisitor).  Code is a string.                                        *)

\* AnnotatedTypeName.is_public
AnnotatedTypeName_is_public(self) == is_all_expr(self.privacy_annotation)

\* AnnotatedTypeName.is_private
AnnotatedTypeName_is_private(self) == ~AnnotatedTypeName_is_public(self)

\* the annotated type a later pass has set on an expression
Typed(annotated_type) == [cls |-> "AnnotatedTypeName", val |-> annotated_type]

\* an IdentifierExpr over Identifier(name); annotated_type is None (NoneVal)
\* until a later pass sets it
NamedIdentifierExpr(name, annotated_type) ==
    [cls |-> "IdentifierExpr", idf |-> [cls |-> "Identifier", name |-> name],
     annotated_type |-> annotated_type]

\* NumberLiteralExpr(value): no source text, no unit, not hexadecimal
NumberLiteralExpr(v) == [cls |-> "NumberLiteralExpr", value |-> v]

\* the binary operators of builtin_functions, all formatted '{} op {}'
BinaryOperators == {"**", "*", "/", "%", "+", "-", "<", ">", "<=", ">=", "==", "!=",
                    "&&", "||", "|", "&", "^", "<<", ">>"}

\* BuiltinFunction.__init__
BuiltinFunction(operator) ==
    IF operator \in BinaryOperators
    THEN Ret([cls |-> "BuiltinFunction", op |-> operator])
    ELSE Raise("ValueError")

\* FunctionCallExpr.__init__ with a list of arguments
FunctionCallExpr(func, arguments) ==
    [cls |-> "FunctionCallExpr", func |-> func,
     args |-> [cls |-> "CallArgumentList", args |-> arguments],
     annotated_type |-> NoneVal]

\* SliceExpr.__init__
SliceExpr(arr, base, start_offset, size) ==
    [cls |-> "SliceExpr", arr |-> arr, base |-> base, start_offset |-> start_offset,
     size |-> size, annotated_type |-> NoneVal]

\* AssignmentStatement.__init__; operator is "None" for None
AssignmentStatement(lhs, rhs, operator) ==
    [cls |-> "AssignmentStatement", lhs |-> lhs, rhs |-> rhs,
     op |-> IF operator = "None" THEN "" ELSE operator]

\* the assignment operators of the grammar, and text[:-1] of each
AssignmentOperators ==
    [eq |-> "=", add |-> "+=", sub |-> "-=", mul |-> "*=", div |-> "/=", mod |-> "%=",
     or |-> "|=", and |-> "&=", xor |-> "^=", shl |-> "<<=", shr |-> ">>="]

WithoutLastCharacter ==
    [eq |-> "", add |-> "+", sub |-> "-", mul |-> "*", div |-> "/", mod |-> "%",
     or |-> "|", and |-> "&", xor |-> "^", shl |-> "<<", shr |-> ">>"]

\* BuildASTVisitor.visitAssignmentExpr; token names the operator of the source
\* text, lhs and rhs are the visited operands
visitAssignmentExpr(is_expr_stmt, lhs, token, rhs) ==
    IF ~is_expr_stmt THEN Raise("SyntaxException")
    ELSE LET operator == IF AssignmentOperators[token] # "=" THEN WithoutLastCharacter[token]
                         ELSE ""
         IN IF operator # ""
            THEN LET func == BuiltinFunction(operator)
                 IN IF Raised(func) THEN func
                    ELSE Ret(AssignmentStatement(lhs, FunctionCallExpr(func.val, <<lhs, rhs>>),
                                                 operator))
            ELSE Ret(AssignmentStatement(lhs, rhs, operator))

\* BuildASTVisitor._handle_crement_expr; text is '++' or '--'
handle_crement_expr(is_expr_stmt, expr, kind, text) ==
    IF ~is_expr_stmt THEN Raise("SyntaxException")
    ELSE LET operator == IF text = "++" THEN "+" ELSE "-"
             one == NumberLiteralExpr(1)
             func == BuiltinFunction(operator)
         IN IF Raised(func) THEN func
            ELSE Ret(AssignmentStatement(expr, FunctionCallExpr(func.val, <<expr, one>>),
                                         kind \o text))

\* CodeVisitor.visit on the expressions of an assignment: visitIdentifierExpr,
\* visitNumberLiteralExpr, visitFunctionCallExpr of a built-in function
RECURSIVE visit(_)
visit(ast) ==
    CASE ast.cls = "IdentifierExpr" -> ast.idf.name
      [] ast.cls = "NumberLiteralExpr" -> ToString(ast.value)
      [] ast.cls = "FunctionCallExpr" ->
            visit(ast.args.args[1]) \o " " \o ast.func.op \o " " \o visit(ast.args.args[2])

\* op.startswith('pre'), op.startswith('post') and the rest of op, for the tags
\* an assignment carries
startswith(operator, prefix) ==
    operator \in {prefix \o "++", prefix \o "--"}

AfterPrefix(operator) ==
    IF operator \in {"pre++", "post++"} THEN "++" ELSE "--"

\* the format string that ignores the position of the operator
format_PostAsPre(operator, lhs, rendered_op, rhs) ==
    IF startswith(operator, "pre") \/ startswith(operator, "post")
    THEN rendered_op \o lhs \o ";"
    ELSE lhs \o " " \o rendered_op \o "= " \o rhs \o ";"

\* fstr.format(lhs, op, rhs) with the fstr chosen for the tag:
\* '{1}{0};', '{0}{1};' or '{} {}= {};'
format(operator, lhs, rendered_op, rhs) ==
    IF startswith(operator, "pre") THEN rendered_op \o lhs \o ";"
    ELSE IF startswith(operator, "post") THEN lhs \o rendered_op \o ";"
    ELSE lhs \o " " \o rendered_op \o "= " \o rhs \o ";"

\* the loop over range(lhs.size) that keeps the first offset
RECURSIVE slice_loop_SameOffset(_, _, _, _, _)
slice_loop_SameOffset(operator, rendered_op, lhs, rhs, i) ==
    IF i >= lhs.size THEN ""
    ELSE LET lbase == IF lhs.base.cls = "None" THEN "" ELSE visit(lhs.base) \o " + "
             rbase == IF rhs.base.cls = "None" THEN "" ELSE visit(rhs.base) \o " + "
         IN format(operator,
                   visit(lhs.arr) \o "[" \o lbase \o ToString(lhs.start_offset) \o "]",
                   rendered_op,
                   visit(rhs.arr) \o "[" \o rbase \o ToString(rhs.start_offset) \o "]")
            \o (IF i + 1 < lhs.size THEN "\n" ELSE "")
            \o slice_loop_SameOffset(operator, rendered_op, lhs, rhs, i + 1)

\* the loop over range(lhs.size) from i on, and s[:-1]: every round appends a
\* line and '\n', the last '\n' is cut off
RECURSIVE slice_loop(_, _, _, _, _)
slice_loop(operator, rendered_op, lhs, rhs, i) ==
    IF i >= lhs.size THEN ""
    ELSE LET lbase == IF lhs.base.cls = "None" THEN "" ELSE visit(lhs.base) \o " + "
             rbase == IF rhs.base.cls = "None" THEN "" ELSE visit(rhs.base) \o " + "
         IN format(operator,
                   visit(lhs.arr) \o "[" \o lbase \o ToString(lhs.start_offset + i) \o "]",
                   rendered_op,
                   visit(rhs.arr) \o "[" \o rbase \o ToString(rhs.start_offset + i) \o "]")
            \o (IF i + 1 < lhs.size THEN "\n" ELSE "")
            \o slice_loop(operator, rendered_op, lhs, rhs, i + 1)

\* CodeVisitor.visitAssignmentStatement
visitAssignmentStatement(ast) ==
    LET lhs == ast.lhs
        private == /\ lhs.annotated_type.cls # "None"
                   /\ AnnotatedTypeName_is_private(lhs.annotated_type.val)
        operator == IF private THEN "" ELSE ast.op
    IN IF operator # "" /\ ast.rhs.cls # "FunctionCallExpr" THEN Raise("AttributeError")
       ELSE LET rhs == IF operator # "" THEN ast.rhs.args.args[2] ELSE ast.rhs
                rendered_op == IF startswith(operator, "pre") \/ startswith(operator, "post")
                               THEN AfterPrefix(operator) ELSE operator
            IN IF lhs.cls = "SliceExpr" /\ rhs.cls = "SliceExpr"
               THEN IF lhs.size # rhs.size THEN Raise("AssertionError")
                    ELSE Ret(slice_loop(operator, rendered_op, lhs, rhs, 0))
               ELSE Ret(format(operator, visit(lhs), rendered_op, visit(rhs)))

-----------------------------------------------------------------------------
(* Statement lists and blocks in the code generator.                        *)

\* ExpressionStatement.__init__ and the pre_statements a later pass has
\* accumulated on the statement (Statement.__init__ starts with none)
ExpressionStatement(expr, pre_statements) ==
    [cls |-> "ExpressionStatement", expr |-> expr, pre_statements |-> pre_statements]

\* Block.__init__
Block(statements, was_single_statement) ==
    [cls |-> "Block", statements |-> statements,
     was_single_statement |-> was_single_statement]

\* CodeVisitor.visitExpressionStatement
visitExpressionStatement(ast) == visit(ast.expr) \o ";"

\* sep.join(s)
RECURSIVE join(_, _)
join(sep, s) ==
    IF s = <<>> THEN ""
    ELSE IF Len(s) = 1 THEN s[1]
    ELSE s[1] \o sep \o join(sep, Tail(s))

\* CodeVisitor.visit_list on a list of statements: every element is visited
\* and the results are joined; prefix is put before every rendered line
visit_list(l, sep, prefix) ==
    join(sep, [i \in 1..Len(l) |-> prefix \o visitExpressionStatement(l[i])])

\* cfg.indentation
Indentation == "    "

\* CodeVisitor.handle_block: indent() prefixes every line of the rendered list
handle_block(ast) == visit_list(ast.statements, "\n", Indentation)

\* CodeVisitor.visitStatementList
visitStatementList(ast) == visit_list(ast.statements, "\n", "")

\* visitBlock that looks at the flag alone
visitBlock_FlagOnly(ast) ==
    LET b == handle_block(ast)
    IN IF ast.was_single_statement THEN b
       ELSE "{\n" \o b \o "\n}"

\* BuildASTVisitor.visitIfStatement, visitWhileStatement, visitDoWhileStatement
\* and visitForStatement on the visited body or branch: a statement that is no
\* block is wrapped into a block flagged was_single_statement
WrapBody(body) ==
    IF body.cls # "Block" THEN Block(<<body>>, TRUE) ELSE body

\* CodeVisitor.visitBlock; the rendered lines end in ';', rstrip() leaves them
visitBlock(ast) ==
    LET b == handle_block(ast)
    IN IF ast.was_single_statement /\ Len(ast.statements) = 1 THEN b
       ELSE "{\n" \o b \o "\n}"


-----------------------------------------------------------------------------
(* Print-then-reparse of literals and binary operators.  Text is kept as   *)
(* the sequence of its characters where the code reads it digit by digit.   *)

\* NumberLiteralExpr.__init__ with every argument; "None" stands for None in
\* source_text and unit
NumberLiteralExpr_init(v, was_hex, source_text, unit) ==
    [cls |-> "NumberLiteralExpr", value |-> v, was_hex |-> was_hex,
     source_text |-> source_text, unit |-> unit]

\* BooleanLiteralExpr.__init__
BooleanLiteralExpr(v) == [cls |-> "BooleanLiteralExpr", value |-> v]

HexDigits == <<"0", "1", "2", "3", "4", "5", "6", "7", "8", "9", "a", "b", "c", "d", "e", "f">>

\* the digits of a natural number in a base, most significant first
RECURSIVE Digits(_, _)
Digits(v, base) ==
    IF v < base THEN <<HexDigits[v + 1]>>
    ELSE Append(Digits(v \div base, base), HexDigits[(v % base) + 1])

\* the string of a sequence of characters
RECURSIVE Text(_)
Text(chars) == IF chars = <<>> THEN "" ELSE chars[1] \o Text(Tail(chars))

\* str(value) of a natural number, named str_int here, and hex(value), as
\* characters
str_int(v) == Digits(v, 10)

hex(v) == <<"0", "x">> \o Digits(v, 16)

\* int_base(text, base) of an unsigned number; base 16 accepts the prefix 0x
RECURSIVE int_base(_, _)
int_base(chars, base) ==
    IF base = 16 /\ Len(chars) >= 2 /\ chars[2] = "x" THEN int_base(SubSeq(chars, 3, Len(chars)), 16)
    ELSE IF chars = <<>> THEN 0
    ELSE int_base(SubSeq(chars, 1, Len(chars) - 1), base) * base
         + (CHOOSE d \in 0..15 : HexDigits[d + 1] = chars[Len(chars)])

\* CodeVisitor.visitNumberLiteralExpr; a unit that is None or '' is not shown
CodeVisitor_visitNumberLiteralExpr(ast) ==
    IF ast.source_text # "None" THEN ast.source_text
    ELSE LET unit == IF ast.unit \notin {"None", ""} THEN " " \o ast.unit ELSE ""
             number == Text(IF ast.was_hex THEN hex(ast.value) ELSE str_int(ast.value))
         IN number \o unit

\* CodeVisitor.visitBooleanLiteralExpr: str(ast.value).lower()
CodeVisitor_visitBooleanLiteralExpr(ast) == IF ast.value THEN "true" ELSE "false"

\* AST.code(): CodeVisitor().visit(self) on literals and on calls of a binary
\* built-in function, whose format string is '{} op {}'
RECURSIVE code(_)
code(ast) ==
    CASE ast.cls = "NumberLiteralExpr" -> CodeVisitor_visitNumberLiteralExpr(ast)
      [] ast.cls = "BooleanLiteralExpr" -> CodeVisitor_visitBooleanLiteralExpr(ast)
      [] ast.cls = "FunctionCallExpr" ->
            code(ast.args.args[1]) \o " " \o ast.func.op \o " " \o code(ast.args.args[2])

\* the parse tree contexts the builder reads: a number literal holds the
\* token HexNumber or DecimalNumber (<<>> when absent) and the token
\* NumberUnit ("" when absent); a binary expression holds lhs, op and rhs
NumberLiteralExprContext(HexNumber, DecimalNumber, NumberUnit) ==
    [rule |-> "NumberLiteralExpr", HexNumber |-> HexNumber,
     DecimalNumber |-> DecimalNumber, NumberUnit |-> NumberUnit]

BooleanLiteralExprContext(text) == [rule |-> "BooleanLiteralExpr", text |-> text]

BinaryExprContext(lhs, operator, rhs) ==
    [rule |-> "BinaryExpr", lhs |-> lhs, op |-> operator, rhs |-> rhs]

\* ctx.getText(): the texts of the tokens of the context, nothing in between
RECURSIVE getText(_)
getText(ctx) ==
    CASE ctx.rule = "NumberLiteralExpr" ->
            Text(ctx.HexNumber) \o Text(ctx.DecimalNumber) \o ctx.NumberUnit
      [] ctx.rule = "BooleanLiteralExpr" -> ctx.text
      [] ctx.rule = "BinaryExpr" -> getText(ctx.lhs) \o ctx.op \o getText(ctx.rhs)

\* BuildASTVisitor.visitNumberLiteralExpr: with a unit token the first line
\* reads getText of the accessor method ctx.NumberUnit itself
BuildASTVisitor_visitNumberLiteralExpr(ctx) ==
    IF ctx.NumberUnit # "" THEN Raise("AttributeError")
    ELSE IF ctx.HexNumber # <<>>
         THEN Ret(NumberLiteralExpr_init(int_base(ctx.HexNumber, 16), TRUE, getText(ctx), "None"))
         ELSE Ret(NumberLiteralExpr_init(int_base(ctx.DecimalNumber, 10), FALSE, getText(ctx), "None"))

\* BuildASTVisitor.visit: visitNumberLiteralExpr, visitBooleanLiteralExpr and
\* _visitBinaryExpr
RECURSIVE BuildASTVisitor_visit(_)
BuildASTVisitor_visit(ctx) ==
    CASE ctx.rule = "NumberLiteralExpr" -> BuildASTVisitor_visitNumberLiteralExpr(ctx)
      [] ctx.rule = "BooleanLiteralExpr" -> Ret(BooleanLiteralExpr(ctx.text = "true"))
      [] ctx.rule = "BinaryExpr" ->
            LET lhs == BuildASTVisitor_visit(ctx.lhs)
                rhs == BuildASTVisitor_visit(ctx.rhs)
                f == BuiltinFunction(ctx.op)
            IN IF Raised(lhs) THEN lhs
               ELSE IF Raised(rhs) THEN rhs
               ELSE IF Raised(f) THEN f
               ELSE Ret(FunctionCallExpr(f.val, <<lhs.val, rhs.val>>))

\* the literals and operators of the texts that are reparsed
MaxLiteral == 17

MaxOperand == 2

NumberUnits == {"ether"}

ParsedOperators == {"+", "*", "=="}

LiteralContexts(max) ==
    {NumberLiteralExprContext(<<>>, str_int(v), u) : v \in 0..max, u \in {""} \cup NumberUnits}
    \cup {NumberLiteralExprContext(hex(v), <<>>, u) : v \in 0..max, u \in {""} \cup NumberUnits}
    \cup {BooleanLiteralExprContext(t) : t \in {"true", "false"}}

ParseTrees ==
    LiteralContexts(MaxLiteral)
    \cup {BinaryExprContext(l, o, r) : l \in LiteralContexts(MaxOperand), o \in ParsedOperators,
                                      r \in LiteralContexts(MaxOperand)}

\* the texts the front end reads a parse tree from: its tokens in order, one
\* blank around the operator of a binary expression, a unit with or without
\* a blank before it
RECURSIVE Spellings(_)
Spellings(ctx) ==
    CASE ctx.rule = "NumberLiteralExpr" ->
            LET number == Text(ctx.HexNumber) \o Text(ctx.DecimalNumber)
            IN IF ctx.NumberUnit = "" THEN {number}
               ELSE {number \o ctx.NumberUnit, number \o " " \o ctx.NumberUnit}
      [] ctx.rule = "BooleanLiteralExpr" -> {ctx.text}
      [] ctx.rule = "BinaryExpr" ->
            {l \o " " \o ctx.op \o " " \o r : l \in Spellings(ctx.lhs), r \in Spellings(ctx.rhs)}

\* MyParser(text).tree for a text that starts with the keyword SOL: the parse
\* tree after the keyword, or a syntax error
MyParser(text) ==
    LET trees == {t \in ParseTrees : text \in {"SOL " \o s : s \in Spellings(t)}}
    IN IF trees = {} THEN Raise("SyntaxException") ELSE Ret(CHOOSE t \in trees : TRUE)

\* SOL(code): visitSourceUnit and visitSba build the node after the keyword
SOL(text) ==
    LET p == MyParser("SOL " \o text)
    IN IF Raised(p) THEN p ELSE BuildASTVisitor_visit(p.val)

\* rebuild_ast(ast)
rebuild_ast(ast) == SOL(code(ast))


-----------------------------------------------------------------------------
(* Construction of statements.  An object is the record of the attributes   *)
(* its constructors have set; cls is its class.                             *)

\* AST.__init__: the attributes it sets (names is an empty dict,
\* modified_values an empty OrderedDict, read_values an empty set)
AST_init ==
    [parent |-> NoneVal, namespace |-> NoneVal, names |-> {}, line |-> -1, column |-> -1,
     modified_values |-> <<>>, read_values |-> {}]

\* Statement.__init__
Statement_init ==
    AST_init @@ [before_analysis |-> NoneVal, after_analysis |-> NoneVal,
                 function |-> NoneVal, pre_statements |-> <<>>]

\* getattr(obj, name)
getattr(obj, name) ==
    IF name \in DOMAIN obj THEN Ret(obj[name]) ELSE Raise("AttributeError")

\* the subclasses of Statement
StatementClasses ==
    {"Statement", "IfStatement", "WhileStatement", "DoWhileStatement", "ForStatement",
     "BreakStatement", "TryStatement", "ContinueStatement", "ReturnStatement",
     "EmitStatement", "RevertStatement", "AssemblyStatement", "SimpleStatement",
     "ExpressionStatement", "RequireStatement", "AssignmentStatement",
     "CircuitInputStatement", "StatementList", "Block", "IndentBlock",
     "VariableDeclarationStatement", "TupleVariableDeclarationStatement"}

\* the parameters of the constructor of each class
Parameters(cls) ==
    CASE cls = "IfStatement" -> {"condition", "then_branch", "else_branch"}
      [] cls = "WhileStatement" -> {"condition", "body"}
      [] cls = "DoWhileStatement" -> {"body", "condition"}
      [] cls = "ForStatement" -> {"init", "condition", "update", "body"}
      [] cls = "TryStatement" -> {"expr", "returnParameters", "body", "catchClauses"}
      [] cls = "ReturnStatement" -> {"expr"}
      [] cls \in {"EmitStatement", "RevertStatement"} -> {"expr", "args"}
      [] cls = "AssemblyStatement" -> {"text"}
      [] cls = "ExpressionStatement" -> {"expr"}
      [] cls = "RequireStatement" -> {"condition", "unmodified_code", "comment"}
      [] cls \in {"AssignmentStatement", "CircuitInputStatement"} -> {"lhs", "rhs", "op"}
      [] cls = "StatementList" -> {"statements", "excluded_from_simulation"}
      [] cls = "Block" -> {"statements", "was_single_statement"}
      [] cls = "IndentBlock" -> {"statements"}
      [] cls = "VariableDeclarationStatement" -> {"variable_declaration", "expr"}
      [] cls = "TupleVariableDeclarationStatement" -> {"vs", "expr"}
      [] OTHER -> {}

\* CodeVisitor.visitRequireStatement; "None" stands for no comment
visitRequireStatement(condition, comment) ==
    IF comment \notin {"None", ""}
    THEN "require(" \o visit(condition) \o ", " \o comment \o ");"
    ELSE "require(" \o visit(condition) \o ");"

\* TupleVariableDeclarationStatement.__init__: sets vs and expr and calls no
\* other constructor
TupleVariableDeclarationStatement_init(a) ==
    [cls |-> "TupleVariableDeclarationStatement", vs |-> a.vs, expr |-> a.expr]

\* cls(**a): the object left by the constructors of cls and of its bases
New(cls, a) ==
    CASE cls = "TupleVariableDeclarationStatement" -> TupleVariableDeclarationStatement_init(a)
      [] cls = "TryStatement" ->
            [cls |-> cls, expr |-> a.expr,
             returnParameters |-> IF a.returnParameters = Absent THEN Children(<<>>)
                                  ELSE a.returnParameters,
             body |-> a.body, catchClauses |-> a.catchClauses] @@ Statement_init
      [] cls = "RequireStatement" ->
            [cls |-> cls, condition |-> a.condition, comment |-> a.comment,
             unmodified_code |-> IF a.unmodified_code = "None"
                                 THEN visitRequireStatement(a.condition, a.comment)
                                 ELSE a.unmodified_code] @@ Statement_init
      [] cls \in {"AssignmentStatement", "CircuitInputStatement"} ->
            [cls |-> cls, lhs |-> a.lhs, rhs |-> a.rhs,
             op |-> IF a.op = "None" THEN "" ELSE a.op] @@ Statement_init
      [] cls \in {"Block", "IndentBlock"} ->
            [cls |-> cls, excluded_from_simulation |-> FALSE] @@ a @@ Statement_init
      [] OTHER -> [cls |-> cls] @@ a @@ Statement_init


-----------------------------------------------------------------------------
(* Trees with parent links.  A heap maps the identities 1..n of the nodes   *)
(* on the way from a node (1) to its root (n) to the objects; 0 is None,    *)
(* and a field that holds a node off this way holds an identity above n.    *)

\* a parent and the field in which it holds the child on the way
Link(cls, field) == [cls |-> cls, field |-> field]

\* the object of a parent: its class, its own parent, and its fields, of
\* which one holds the child
ParentNode(link, child, parent, sibling) ==
    LET held(field) == IF link.field = field THEN child ELSE sibling
    IN CASE link.cls \in {"AssignmentStatement", "CircuitInputStatement"} ->
               [cls |-> link.cls, parent |-> parent, lhs |-> held("lhs"), rhs |-> held("rhs")]
         [] link.cls = "IndexExpr" ->
               [cls |-> link.cls, parent |-> parent, arr |-> held("arr"), key |-> held("key")]
         [] link.cls = "MemberAccessExpr" ->
               [cls |-> link.cls, parent |-> parent, expr |-> held("expr")]
         [] link.cls = "TupleExpr" ->
               [cls |-> link.cls, parent |-> parent, elements |-> <<sibling, child>>]
         [] OTHER -> [cls |-> link.cls, parent |-> parent, child |-> child]

\* the heap of a node of class cls below the parents of chain, nearest first
Tree(cls, chain) ==
    LET n == Len(chain) + 1
    IN [i \in 1..n |->
          IF i = 1 THEN [cls |-> cls, parent |-> IF n = 1 THEN 0 ELSE 2]
          ELSE ParentNode(chain[i - 1], i - 1, IF i = n THEN 0 ELSE i + 1, n + i)]

\* is_lvalue without the test of the field of the parent index expression
RECURSIVE TupleOrLocationExpr_is_lvalue_AnyIndexPosition(_, _)
TupleOrLocationExpr_is_lvalue_AnyIndexPosition(heap, self) ==
    LET parent == heap[self].parent
    IN IF parent = 0 THEN FALSE
       ELSE IF heap[parent].cls \in {"AssignmentStatement", "CircuitInputStatement"}
            THEN self = heap[parent].lhs
       ELSE IF heap[parent].cls = "IndexExpr"
            THEN TupleOrLocationExpr_is_lvalue_AnyIndexPosition(heap, parent)
       ELSE IF heap[parent].cls = "MemberAccessExpr" /\ self = heap[parent].expr
            THEN TupleOrLocationExpr_is_lvalue_AnyIndexPosition(heap, parent)
       ELSE IF heap[parent].cls = "TupleExpr"
            THEN TupleOrLocationExpr_is_lvalue_AnyIndexPosition(heap, parent)
       ELSE FALSE

\* TupleOrLocationExpr.is_lvalue; == on these expressions is identity
RECURSIVE TupleOrLocationExpr_is_lvalue(_, _)
TupleOrLocationExpr_is_lvalue(heap, self) ==
    LET parent == heap[self].parent
    IN IF parent = 0 THEN FALSE
       ELSE IF heap[parent].cls \in {"AssignmentStatement", "CircuitInputStatement"}
            THEN self = heap[parent].lhs
       ELSE IF heap[parent].cls = "IndexExpr" /\ self = heap[parent].arr
            THEN TupleOrLocationExpr_is_lvalue(heap, parent)
       ELSE IF heap[parent].cls = "MemberAccessExpr" /\ self = heap[parent].expr
            THEN TupleOrLocationExpr_is_lvalue(heap, parent)
       ELSE IF heap[parent].cls = "TupleExpr"
            THEN TupleOrLocationExpr_is_lvalue(heap, parent)
       ELSE FALSE

\* TupleOrLocationExpr.is_rvalue
TupleOrLocationExpr_is_rvalue(heap, self) == ~TupleOrLocationExpr_is_lvalue(heap, self)


\* the kind of node a class is, and the kinds of children a parent holds in
\* the field of a link
Kind(cls) ==
    CASE cls \in {"IdentifierExpr", "TupleExpr", "IndexExpr", "MemberAccessExpr", "SliceExpr",
                  "FunctionCallExpr"} -> "expression"
      [] cls \in {"AssignmentStatement", "CircuitInputStatement", "ExpressionStatement",
                  "Block"} -> "statement"
      [] OTHER -> cls

ChildKinds(link) ==
    CASE Kind(link.cls) = "expression" -> {"expression"}
      [] link.cls = "Block" -> {"statement"}
      [] Kind(link.cls) = "statement" -> {"expression"}
      [] link.cls = "ConstructorOrFunctionDefinition" -> {"statement"}
      [] link.cls = "StructDefinition" -> {"VariableDeclaration"}
      [] link.cls = "ContractDefinition" -> {"ConstructorOrFunctionDefinition", "StructDefinition"}
      [] link.cls = "SourceUnit" -> {"ContractDefinition", "StructDefinition"}
      [] OTHER -> {}

\* every parent of the chain holds a child of a kind it can hold
WellFormed(cls, chain) ==
    \A i \in 1..Len(chain) :
        Kind(IF i = 1 THEN cls ELSE chain[i - 1].cls) \in ChildKinds(chain[i])

\* AST.get_related_function from _ast_iter on; 0 is returned for None, and
\* None.parent raises
RECURSIVE get_related_function(_, _)
get_related_function(heap, _ast_iter) ==
    IF _ast_iter = 0 THEN Raise("AttributeError")
    ELSE IF heap[_ast_iter].cls = "ContractDefinition" THEN Ret(0)
    ELSE IF heap[_ast_iter].cls = "ConstructorOrFunctionDefinition" THEN Ret(_ast_iter)
    ELSE get_related_function(heap, heap[_ast_iter].parent)

\* AST.get_related_contract from _ast_iter on
RECURSIVE get_related_contract(_, _)
get_related_contract(heap, _ast_iter) ==
    IF _ast_iter = 0 THEN Raise("AttributeError")
    ELSE IF heap[_ast_iter].cls = "SourceUnit" THEN Ret(0)
    ELSE IF heap[_ast_iter].cls = "ContractDefinition" THEN Ret(_ast_iter)
    ELSE get_related_contract(heap, heap[_ast_iter].parent)

\* AST.is_in_assignment_lefthand from _ast_iter and _child on
RECURSIVE is_in_assignment_lefthand(_, _, _)
is_in_assignment_lefthand(heap, _ast_iter, _child) ==
    IF _ast_iter = 0 THEN Raise("AttributeError")
    ELSE IF heap[_ast_iter].cls = "SourceUnit" THEN Ret(FALSE)
    ELSE IF heap[_ast_iter].cls \in {"AssignmentStatement", "CircuitInputStatement"}
         THEN Ret(_child = heap[_ast_iter].lhs)
    ELSE is_in_assignment_lefthand(heap, heap[_ast_iter].parent, _ast_iter)


-----------------------------------------------------------------------------
(* The privacy classification of a function.                                *)

\* ConstructorOrFunctionDefinition.requires_verification (getter)
requires_verification(self) == IF is_zkp(self) THEN TRUE ELSE FALSE

\* ConstructorOrFunctionDefinition.requires_verification (setter)
set_requires_verification(self, req_verify) ==
    IF req_verify THEN [self EXCEPT !.privacy_type = ZKP] ELSE self

\* one statement on a function f: f.requires_verification = True / False, or
\* the write f.privacy_type = FunctionPrivacyType.MPC / TEE of another pass
IsAssignment(step) ==
    step \in {"requires_verification = True", "requires_verification = False"}

execute(self, step) ==
    CASE step = "requires_verification = True" -> set_requires_verification(self, TRUE)
      [] step = "requires_verification = False" -> set_requires_verification(self, FALSE)
      [] step = "privacy_type = MPC" -> [self EXCEPT !.privacy_type = MPC]
      [] step = "privacy_type = TEE" -> [self EXCEPT !.privacy_type = TEE]

\* the function after the first n of the steps
RECURSIVE after(_, _, _)
after(self, steps, n) ==
    IF n = 0 THEN self ELSE execute(after(self, steps, n - 1), steps[n])

-----------------------------------------------------------------------------
(* The bounded sets the arguments are drawn from.                           *)

\* literal values -SmallMax..SmallMax besides the values around powers of two
SmallMax == 2

\* expression nodes and declarations are told apart by an id in 1..Max
MaxNode == 2

MaxDecl == 2

\* literal values 2^k - 1, 2^k, 2^k + 1 and their negations
BoundaryExps == {7, 8, 15, 16, 151, 152, 159, 160, 255, 256}

LiteralValues ==
    {FromInt(n) : n \in (-SmallMax)..SmallMax}
    \cup {[neg |-> s, mag |-> PowMag(k, d)] : s \in BOOLEAN, k \in BoundaryExps, d \in -1..1}

\* the literal types that can be constructed
LiteralTypes ==
    {NumberLiteralType(v).val : v \in {u \in LiteralValues : ~Raised(NumberLiteralType(u))}}

\* the widths the grammar admits: 8, 16, ..., 256
Widths == {8 * k : k \in 1..32}

IntTypes == {IntTypeName(TName("int", NoNum))}
            \cup {IntTypeName(NameWithWidth("int", w)) : w \in Widths}

UintTypes == {UintTypeName(TName("uint", NoNum))}
             \cup {UintTypeName(NameWithWidth("uint", w)) : w \in Widths}

NonLiteralNumericTypes == IntTypes \cup UintTypes \cup {NumberTypeName_any}

ElementaryTypes ==
    {BoolTypeName, BooleanLiteralType(TRUE), BooleanLiteralType(FALSE), StringTypeName,
     BytesTypeName(TName("bytes", NoNum)), BytesTypeName(NameWithWidth("bytes", 32))}

\* enum C.E, its value C.E.V, struct C.S, contract C, and an enum whose
\* target symbol resolution has not set yet
UserDefinedTypes ==
    {UserDefinedTypeName("EnumTypeName", <<1, 2>>, Definition(<<"C", "E">>)),
     UserDefinedTypeName("EnumValueTypeName", <<1, 2, 3>>, Definition(<<"C", "E", "V">>)),
     UserDefinedTypeName("StructTypeName", <<1, 4>>, Definition(<<"C", "S">>)),
     UserDefinedTypeName("ContractTypeName", <<1>>, Definition(<<"C">>)),
     UserDefinedTypeName("EnumTypeName", <<1, 5>>, NoTarget),
     AddressTypeName, AddressPayableTypeName}

NodeIds == 1..MaxNode

DeclIds == 1..MaxDecl

\* labels that are not key-label identifiers of a mapping
BaseLabels ==
    {AllExpr(i) : i \in NodeIds} \cup {MeExpr(i) : i \in NodeIds}
    \cup {TeeExpr(i) : i \in NodeIds}
    \cup {Expr("IdentifierExpr", i, Declaration("StateVariableDeclaration", d)) :
            i \in NodeIds, d \in DeclIds}
    \cup {Expr("IdentifierExpr", i, NoTarget) : i \in NodeIds}
    \cup {Expr("NumberLiteralExpr", i, NoTarget) : i \in NodeIds}

\* key-label identifiers whose target is a Mapping, instantiated or not
MappingLabels ==
    {Expr("IdentifierExpr", i, MappingTarget(k)) :
        i \in NodeIds, k \in {NoneVal} \cup {b \in BaseLabels : b.id = 1}}

Labels == BaseLabels \cup MappingLabels

\* scalar annotated types: with a written label, or with none
ScalarAnnotated(types) ==
    {AnnotatedTypeName(t, l) : t \in types, l \in Labels \cup {NoneVal}}

TupleTypes ==
    {TupleType(<<>>),
     TupleType(<<AnnotatedTypeName(UintTypeName(NameWithWidth("uint", 8)), NoneVal)>>),
     TupleType(<<AnnotatedTypeName(UintTypeName(NameWithWidth("uint", 8)), NoneVal),
                 AnnotatedTypeName(BoolTypeName, MeExpr(1))>>),
     TupleType(<<AnnotatedTypeName(UintTypeName(NameWithWidth("uint", 16)), NoneVal),
                 AnnotatedTypeName(BoolTypeName, AllExpr(1))>>),
     TupleType(<<AnnotatedTypeName(UintTypeName(NameWithWidth("uint", 8)), NoneVal),
                 AnnotatedTypeName(UserDefinedTypeName("EnumTypeName", <<1, 5>>, NoTarget),
                                   NoneVal)>>)}

AllTypes == NonLiteralNumericTypes \cup LiteralTypes \cup ElementaryTypes
            \cup UserDefinedTypes \cup TupleTypes

\* a few numeric types besides every other kind of type
FewNumericTypes ==
    {NumberTypeName_any, IntTypeName(TName("int", NoNum)), UintTypeName(TName("uint", NoNum)),
     IntTypeName(NameWithWidth("int", 8)), UintTypeName(NameWithWidth("uint", 8)),
     IntTypeName(NameWithWidth("int", 256)), UintTypeName(NameWithWidth("uint", 160))}

FewTypes == FewNumericTypes \cup ElementaryTypes \cup UserDefinedTypes \cup TupleTypes

CombineTypes == FewTypes \cup LiteralTypes

\* the label keys the oracle may report as co-owned
OraclePairs ==
    {<<<<"MeExpr", 0>>, <<"Identifier", 1>>>>, <<<<"Identifier", 1>>, <<"Identifier", 2>>>>,
     <<<<"Identifier", 2>>, <<"Identifier", 1>>>>, <<<<"MeExpr", 0>>, <<"AllExpr", 0>>>>}

Oracles == {NoAnalysis} \cup {Analysis(S) : S \in SUBSET OraclePairs}

\* tuple types with a label of their own (the caller, or an identifier whose
\* target is not set), one of them with a component whose label is such an
\* identifier
LabelledTuples ==
    {AnnotatedTypeName(TupleType(<<AnnotatedTypeName(UintTypeName(TName("uint", NoNum)), c),
                                   AnnotatedTypeName(BoolTypeName, MeExpr(1))>>), l) :
        c \in {NoneVal, MeExpr(1), Expr("IdentifierExpr", 2, NoTarget)},
        l \in {NoneVal, MeExpr(1), Expr("IdentifierExpr", 1, NoTarget)}}

\* the annotated types combined_privacy is applied to: uint with every label,
\* and the tuple types
PrivacyOperands ==
    ScalarAnnotated({UintTypeName(TName("uint", NoNum))})
    \cup {AnnotatedTypeName(t, NoneVal) : t \in TupleTypes}
    \cup LabelledTuples

\* the annotated types compared for equality
EqualityOperands ==
    ScalarAnnotated({UintTypeName(TName("uint", NoNum)), UintTypeName(NameWithWidth("uint", 256)),
                     BoolTypeName})

\* the declarations an identifier may be resolved to
Declarations ==
    {Declaration(c, d) : c \in TargetDeclarationClasses \cup {"ConstantVariableDeclaration"},
                         d \in DeclIds}

\* identifier expressions, resolved or not
IdentifierExprs ==
    {IdentifierExpr(i, t) : i \in NodeIds, t \in Declarations \cup {NoTarget}}

\* the identifier expressions indexed or accessed: state variables, one
\* constant, and unresolved ones
BaseExprs ==
    {IdentifierExpr(i, t) :
        i \in NodeIds,
        t \in {Declaration("StateVariableDeclaration", d) : d \in DeclIds} \cup {NoTarget}}

\* index keys: absent, me, a literal, a parameter
KeyExprs ==
    {NoneVal} \cup {MeExpr(i) : i \in NodeIds}
    \cup {Expr("NumberLiteralExpr", i, NoTarget) : i \in NodeIds}
    \cup {IdentifierExpr(i, Declaration("Parameter", 1)) : i \in NodeIds}

MemberAccessExprs ==
    {MemberAccessExpr(i, e, Identifier(m, n)) :
        i \in NodeIds, e \in BaseExprs, m \in NodeIds, n \in {"f", "g"}}

\* m[k], m[k][k'] and m.f[k]
IndexExprs ==
    {IndexExpr(i, e, k) : i \in NodeIds, e \in BaseExprs, k \in KeyExprs}
    \cup {IndexExpr(i, IndexExpr(1, IdentifierExpr(1, Declaration("StateVariableDeclaration", 1)),
                                 MeExpr(1)), k) :
            i \in NodeIds, k \in {MeExpr(2), Expr("NumberLiteralExpr", 1, NoTarget)}}
    \cup {IndexExpr(i, MemberAccessExpr(1, IdentifierExpr(1, NoTarget), Identifier(1, "f")), NoneVal) :
            i \in NodeIds}

\* everything InstanceTarget is applied to
TargetOperands ==
    IdentifierExprs \cup MemberAccessExprs \cup IndexExprs
    \cup {Declaration("VariableDeclaration", d) : d \in DeclIds}
    \cup {Declaration("Parameter", 1), Expr("NumberLiteralExpr", 1, NoTarget),
          [cls |-> "InstanceTarget",
           key |-> <<Declaration("VariableDeclaration", 1), NoneVal, NoneVal>>]}

\* a contract has at most MaxUnits units
MaxUnits == 3

UnitKinds ==
    {<<"ConstructorOrFunctionDefinition", "function">>,
     <<"ConstructorOrFunctionDefinition", "constructor">>,
     <<"StateVariableDeclaration", "">>}

\* the unit lists: the unit at position i has id i
UnitLists ==
    UNION {{[i \in 1..n |-> Unit(k[i][1], k[i][2], i)] : k \in [1..n -> UnitKinds]} :
            n \in 0..MaxUnits}

\* the names tables over a unit list: some of f and x, each declared by a unit
NameTables(units) ==
    UNION {[K -> 1..Len(units)] : K \in SUBSET {"f", "x"}}

Contracts == UNION {{ContractDefinition(u, t) : t \in NameTables(u)} : u \in UnitLists}

\* a statement list has at most MaxStmts statements
MaxStmts == 3

\* the statement lists: statement i is the node with id i
StatementLists == {[i \in 1..n |-> Stmt(i)] : n \in 0..MaxStmts}

\* what a transform may return for statement i: nothing, the statement itself, a
\* new node, or a list of zero, one or two nodes
TransformResults(i) ==
    {ReturnsNone, ReturnsNode(Stmt(i)), ReturnsNode(Stmt(i + 10)), ReturnsList(<<>>),
     ReturnsList(<<Stmt(i + 10)>>), ReturnsList(<<Stmt(i), Stmt(i + 10)>>),
     ReturnsList(<<Stmt(i + 20), Stmt(i)>>)}

\* the transforms over n statements
Transforms(n) ==
    {f \in [1..n -> UNION {TransformResults(i) : i \in 1..n}] :
        \A i \in 1..n : f[i] \in TransformResults(i)}

\* a list field holds at most MaxItems nodes
MaxItems == 2

\* the fields that hold a list of nodes
ListFields ==
    {<<"TupleExpr", "elements">>, <<"CatchClause", "args">>,
     <<"TryStatement", "returnParameters">>, <<"TryStatement", "catchClauses">>,
     <<"TupleVariableDeclarationStatement", "vs">>, <<"InlineArrayExpr", "exprs">>}

\* the values of the p-th field: the node in a field at position p has id p,
\* the nodes of a list there have ids 10p+1, 10p+2, ...
FieldValues(cls, field, p) ==
    IF <<cls, field>> \in ListFields
    THEN {Children([k \in 1..n |-> Leaf(10 * p + k)]) : n \in 0..MaxItems}
    ELSE {Absent, Child(Leaf(p))}

Range(s) == {s[i] : i \in DOMAIN s}

\* the nodes of a class: every valuation of its fields
NodesOf(cls) ==
    LET fields == ChildFields[cls]
        all == UNION {FieldValues(cls, fields[p], p) : p \in 1..Len(fields)}
    IN {[cls |-> cls, fields |-> fv] :
          fv \in {g \in [Range(fields) -> all] :
                    \A p \in 1..Len(fields) : g[fields[p]] \in FieldValues(cls, fields[p], p)}}

TreeNodes == UNION {NodesOf(cls) : cls \in DOMAIN ChildFields}

\* slices hold at most MaxSize elements and start at most at MaxOffset
MaxSize == 3

MaxOffset == 2

\* the annotated type of the left side: not set, public, or private
LhsAnnotations ==
    {NoneVal} \cup {Typed(AnnotatedTypeName(NumberTypeName_any, p)) :
                       p \in {NoneVal, AllExpr(0), MeExpr(0), TeeExpr(0)}}

RhsExprs == {NamedIdentifierExpr("e", NoneVal), NumberLiteralExpr(1), NumberLiteralExpr(2)}

\* assignments of the source text: lhs op rhs, ++lhs, --lhs, lhs++, lhs--
SourceAssignments ==
    {[kind |-> "assign", token |-> t, rhs |-> r] :
        t \in DOMAIN AssignmentOperators, r \in RhsExprs}
    \cup {[kind |-> k, token |-> t, rhs |-> NoneVal] : k \in {"pre", "post"}, t \in {"++", "--"}}

\* the statement the builder makes of a source assignment to x
BuiltAssignment(is_expr_stmt, source, annotated_type) ==
    IF source.kind = "assign"
    THEN visitAssignmentExpr(is_expr_stmt, NamedIdentifierExpr("x", annotated_type),
                             source.token, source.rhs)
    ELSE handle_crement_expr(is_expr_stmt, NamedIdentifierExpr("x", annotated_type),
                             source.kind, source.token)

SliceBases == {NoneVal, NamedIdentifierExpr("i", NoneVal)}

SliceExprs(name) ==
    {SliceExpr(NamedIdentifierExpr(name, NoneVal), b, o, n) :
        b \in SliceBases, o \in 0..MaxOffset, n \in 0..MaxSize}

\* a statement has accumulated at most MaxPre pre-statements
MaxPre == 2

\* the k-th statement of a list, sk;, with n pre-statements pk1;, pk2;, ...
StatementWithPre(k, n) ==
    ExpressionStatement(NamedIdentifierExpr("s" \o ToString(k), NoneVal),
        [j \in 1..n |-> ExpressionStatement(
                            NamedIdentifierExpr("p" \o ToString(k) \o ToString(j), NoneVal),
                            <<>>)])

RenderedLists ==
    UNION {{[k \in 1..n |-> StatementWithPre(k, pre[k])] : pre \in [1..n -> 0..MaxPre]} :
              n \in 0..MaxStmts}

\* array lengths are at most MaxLength
MaxLength == 2

\* the value types of mappings and arrays: uint and bool, public or owned by
\* the caller, a resolved enum, and an enum whose target is not set yet
ValueTypes ==
    {AnnotatedTypeName(t, l) :
        t \in {UintTypeName(TName("uint", NoNum)), BoolTypeName}, l \in {NoneVal, MeExpr(1)}}
    \cup {AnnotatedTypeName(UserDefinedTypeName("EnumTypeName", <<1, 2>>,
                                                 Definition(<<"C", "E">>)), NoneVal),
           AnnotatedTypeName(UserDefinedTypeName("EnumTypeName", <<1, 5>>, NoTarget), NoneVal)}

\* mapping(key!label => value), the label absent or one of two Identifier nodes
Mappings ==
    {Mapping(k, l, v) :
        k \in {UintTypeName(TName("uint", NoNum)), BoolTypeName, AddressTypeName},
        l \in {NoneVal, Identifier(1, "x"), Identifier(2, "y")},
        v \in ValueTypes}

\* value[], value[n], value[N] for an identifier N (one of two nodes)
Arrays ==
    {Array(v, e) :
        v \in ValueTypes,
        e \in {NoneVal} \cup {[cls |-> "int", value |-> n] : n \in 1..MaxLength}
              \cup {Expr("IdentifierExpr", i, NoTarget) : i \in NodeIds}}

\* the types compared for equality
EqualityTypes == Mappings \cup Arrays \cup UserDefinedTypes \cup {BoolTypeName}

\* the k-th statement sk; as a node with an identity
NumberedStatement(k) ==
    [id |-> k] @@ ExpressionStatement(NamedIdentifierExpr("s" \o ToString(k), NoneVal), <<>>)

\* the bodies of the source text: one unbraced statement, or a braced block
SourceBodies ==
    {NumberedStatement(1)}
    \cup {Block([k \in 1..n |-> NumberedStatement(k)], FALSE) : n \in 0..MaxItems}

\* what a rewrite pass returns for statement k: nothing, the statement, or a
\* list of the statement and a new one
BodyTransforms ==
    {f \in [1..MaxItems -> {ReturnsNone} \cup {ReturnsNode(NumberedStatement(k)) : k \in 1..MaxItems}
                              \cup {ReturnsList(<<NumberedStatement(k), NumberedStatement(k + 10)>>) :
                                      k \in 1..MaxItems}] :
        \A k \in 1..MaxItems :
            f[k] \in {ReturnsNone, ReturnsNode(NumberedStatement(k)),
                      ReturnsList(<<NumberedStatement(k), NumberedStatement(k + 10)>>)}}

\* a function has at most MaxReturns return parameters
MaxReturns == 2

\* the k-th return parameter: uint or bool, public or owned by the caller, in
\* storage or in memory
ReturnParameters(k) ==
    {Parameter(AnnotatedTypeName(t, l), Identifier(k, "r" \o ToString(k)), st) :
        t \in {UintTypeName(TName("uint", NoNum)), BoolTypeName},
        l \in {NoneVal, MeExpr(1)}, st \in {"None", "memory"}}

ReturnParameterLists ==
    {Absent} \cup
    UNION {{Children(l) : l \in {p \in [1..n -> UNION {ReturnParameters(k) : k \in 1..n}] :
                                    \A k \in 1..n : p[k] \in ReturnParameters(k)}} :
              n \in 0..MaxReturns}


\* the nodes that are printed and reparsed: number literals as a pass builds
\* them (no source text) or as the builder leaves them (source text kept),
\* boolean literals, and binary operators over the small literals
NumberLiterals(max) ==
    UNION {{NumberLiteralExpr_init(v, h, t, u) :
                t \in {"None", Text(IF h THEN hex(v) ELSE str_int(v))}, u \in {"None", ""} \cup NumberUnits} :
           v \in 0..max, h \in BOOLEAN}

LiteralNodes(max) == NumberLiterals(max) \cup {BooleanLiteralExpr(b) : b \in BOOLEAN}

RoundTripNodes ==
    LiteralNodes(MaxLiteral)
    \cup {FunctionCallExpr(BuiltinFunction(o).val, <<l, r>>) :
              l \in LiteralNodes(MaxOperand), o \in ParsedOperators, r \in LiteralNodes(MaxOperand)}


\* the arguments of the constructors of statements: two values for each
\* parameter
ArgumentValues(parameter) ==
    CASE parameter \in {"excluded_from_simulation", "was_single_statement"} -> <<FALSE, TRUE>>
      [] parameter \in {"statements", "vs", "catchClauses"} ->
            <<Children(<<>>), Children(<<Stmt(1)>>)>>
      [] parameter = "returnParameters" -> <<Absent, Children(<<Stmt(1)>>)>>
      [] parameter = "op" -> <<"None", "+">>
      [] parameter = "text" -> <<"{ }", "{ x := 1 }">>
      [] parameter = "unmodified_code" -> <<"None", "require(c);">>
      [] parameter = "comment" -> <<"None", "'c holds'">>
      [] parameter = "condition" -> <<NamedIdentifierExpr("c", NoneVal), NumberLiteralExpr(1)>>
      [] OTHER -> <<NoneVal, Stmt(1)>>

Arguments(cls) ==
    {[p \in Parameters(cls) |-> ArgumentValues(p)[choice[p]]] :
        choice \in [Parameters(cls) -> 1..2]}


\* the parents of an expression, and the ways from an expression upwards
MaxDepth == 3

ExpressionLinks ==
    {Link("AssignmentStatement", "lhs"), Link("AssignmentStatement", "rhs"),
     Link("CircuitInputStatement", "lhs"), Link("IndexExpr", "arr"), Link("IndexExpr", "key"),
     Link("MemberAccessExpr", "expr"), Link("TupleExpr", "elements"),
     Link("SliceExpr", "arr"), Link("FunctionCallExpr", "args")}

ExpressionChains ==
    {c \in UNION {[1..n -> ExpressionLinks] : n \in 0..MaxDepth} :
        WellFormed("IdentifierExpr", c)}

LocationClasses == {"IdentifierExpr", "TupleExpr"}


\* the ways from a node to the root of its tree: a complete tree ends in a
\* source unit, a subtree that is not linked into one ends earlier
MaxHeight == 5

TreeLinks ==
    {Link("AssignmentStatement", "lhs"), Link("AssignmentStatement", "rhs"),
     Link("IndexExpr", "arr"), Link("ExpressionStatement", "expr"), Link("Block", "statements"),
     Link("ConstructorOrFunctionDefinition", "body"), Link("StructDefinition", "members"),
     Link("ContractDefinition", "units"), Link("SourceUnit", "units")}

RECURSIVE ChainsFrom(_, _)
ChainsFrom(kind, n) ==
    IF n = 0 THEN {<<>>}
    ELSE {<<>>} \cup UNION {{<<l>> \o c : c \in ChainsFrom(Kind(l.cls), n - 1)} :
                               l \in {t \in TreeLinks : kind \in ChildKinds(t)}}

TreeClasses ==
    {"IdentifierExpr", "Block", "VariableDeclaration", "StructDefinition",
     "ConstructorOrFunctionDefinition", "ContractDefinition", "SourceUnit"}


\* the statements executed on a new function
MaxAssignments == 4

Steps ==
    {"requires_verification = True", "requires_verification = False",
     "privacy_type = MPC", "privacy_type = TEE"}

StepSequences == UNION {[1..n -> Steps] : n \in 0..MaxAssignments}

-----------------------------------------------------------------------------
(* The state machine: from the initial state one function is applied to    *)
(* drawn arguments; op names it, args holds the arguments, res the outcome. *)

Init ==
    /\ op = "init"
    /\ args = <<>>
    /\ res = Ret(NoneVal)

\* two drawn nodes with the same id are the same node
OneNodePerId(m, n) == IdentityEq(m, n) => m = n

\* NumberLiteralType(v)
NewNumberLiteralType ==
    /\ op = "init"
    /\ \E v \in LiteralValues :
            /\ op' = "NumberLiteralType"
            /\ args' = [v |-> v]
            /\ res' = NumberLiteralType(v)

\* t.can_represent(v)
CanRepresent ==
    /\ op = "init"
    /\ \E t \in NonLiteralNumericTypes, v \in LiteralValues :
            /\ op' = "can_represent"
            /\ args' = [self |-> t, v |-> v]
            /\ res' = Ret(can_represent(t, v))

\* a.implicitly_convertible_to(b)
Convert ==
    /\ op = "init"
    /\ \E a \in AllTypes, b \in AllTypes :
            /\ op' = "implicitly_convertible_to"
            /\ args' = [self |-> a, other |-> b]
            /\ res' = implicitly_convertible_to(a, b)

\* a.compatible_with(b)
Compatible ==
    /\ op = "init"
    /\ \E a \in FewTypes, b \in FewTypes :
            /\ op' = "compatible_with"
            /\ args' = [self |-> a, other |-> b]
            /\ res' = compatible_with(a, b)

\* a.combined_type(b, convert_literals)
CombineType ==
    /\ op = "init"
    /\ \E a \in CombineTypes, b \in CombineTypes, convert_literals \in BOOLEAN :
            /\ op' = "combined_type"
            /\ args' = [self |-> a, other |-> b, convert_literals |-> convert_literals]
            /\ res' = combined_type(a, b, convert_literals)

\* a.combined_privacy(analysis, b)
CombinePrivacy ==
    /\ op = "init"
    /\ \E a \in PrivacyOperands, b \in PrivacyOperands, analysis \in Oracles :
            /\ OneNodePerId(a.privacy_annotation, b.privacy_annotation)
            /\ op' = "combined_privacy"
            /\ args' = [self |-> a, other |-> b, analysis |-> analysis]
            /\ res' = combined_privacy(a, analysis, b)

\* a == b on annotated type names
AnnotatedEquals ==
    /\ op = "init"
    /\ \E a \in EqualityOperands, b \in EqualityOperands :
            /\ OneNodePerId(a.privacy_annotation, b.privacy_annotation)
            /\ op' = "AnnotatedTypeName.__eq__"
            /\ args' = [self |-> a, other |-> b]
            /\ res' = AnnotatedTypeName_eq(a, b)

\* the nodes an expression is made of
RECURSIVE Nodes(_)
Nodes(e) ==
    CASE e.cls = "MemberAccessExpr" -> {e, e.member} \cup Nodes(e.expr)
      [] e.cls = "IndexExpr" -> {e, e.key} \cup Nodes(e.arr)
      [] e.cls = "InstanceTarget" -> {}
      [] OTHER -> {e}

\* the nodes of the two drawn expressions form one heap
OneHeap(a, b) ==
    \A m \in Nodes(a) \cup Nodes(b), n \in Nodes(a) \cup Nodes(b) :
        (m.cls # "None" /\ n.cls # "None") => OneNodePerId(m, n)

\* InstanceTarget(a), InstanceTarget(b), their comparison and their hashes
NewInstanceTargets ==
    /\ op = "init"
    /\ \E a \in TargetOperands, b \in TargetOperands :
            /\ OneHeap(a, b)
            /\ op' = "InstanceTarget"
            /\ args' = [self |-> a, other |-> b]
            /\ res' = LET ta == InstanceTarget(a)
                          tb == InstanceTarget(b)
                      IN IF Raised(ta) THEN ta
                         ELSE IF Raised(tb) THEN tb
                         ELSE Ret([self |-> ta.val, other |-> tb.val,
                                   eq |-> InstanceTarget_eq(ta.val, tb.val),
                                   hash_self |-> InstanceTarget_hash(ta.val),
                                   hash_other |-> InstanceTarget_hash(tb.val)])

\* contract[key]
ContractGetItem ==
    /\ op = "init"
    /\ \E c \in Contracts, key \in {"constructor", "f", "x"} :
            /\ op' = "ContractDefinition.__getitem__"
            /\ args' = [self |-> c, key |-> key]
            /\ res' = ContractDefinition_getitem(c, key)

\* statement_list.process_children(f)
RewriteStatementList ==
    /\ op = "init"
    /\ \E statements \in StatementLists :
         \E f \in Transforms(Len(statements)) :
            /\ op' = "StatementList.process_children"
            /\ args' = [statements |-> statements, f |-> f]
            /\ res' = Ret(StatementList_process_children(statements, f))

\* node.children(), and the calls node.process_children(f) makes
ListChildren ==
    /\ op = "init"
    /\ \E node \in TreeNodes :
            /\ op' = "children"
            /\ args' = [self |-> node]
            /\ res' = Ret([children |-> children(node), calls |-> process_children(node, 1)])

\* an assignment of the source text is built, a later pass sets the annotated
\* type of its left side, and the statement is rendered
RenderAssignment ==
    /\ op = "init"
    /\ \E source \in SourceAssignments, t \in LhsAnnotations, is_expr_stmt \in BOOLEAN :
            LET built == BuiltAssignment(is_expr_stmt, source, t)
            IN /\ op' = "visitAssignmentStatement"
               /\ args' = [source |-> source, annotated_type |-> t, ast |-> built]
               /\ res' = IF Raised(built) THEN built ELSE visitAssignmentStatement(built.val)

\* an assignment between two slices, made by a later pass, is rendered
RenderSliceAssignment ==
    /\ op = "init"
    /\ \E lhs \in SliceExprs("a"), rhs \in SliceExprs("b") :
            LET ast == AssignmentStatement(lhs, rhs, "None")
            IN /\ op' = "visitAssignmentStatement"
               /\ args' = [source |-> [kind |-> "slices"], annotated_type |-> NoneVal,
                           ast |-> Ret(ast)]
               /\ res' = visitAssignmentStatement(ast)

\* a list of statements is rendered, as a statement list and as a block
RenderStatementList ==
    /\ op = "init"
    /\ \E statements \in RenderedLists, was_single_statement \in BOOLEAN :
            LET ast == Block(statements, was_single_statement)
            IN /\ op' = "visitStatementList"
               /\ args' = [ast |-> ast]
               /\ res' = Ret([list |-> visitStatementList(ast), block |-> visitBlock(ast)])

\* a == b on type names
TypeEquals ==
    /\ op = "init"
    /\ \E a \in EqualityTypes, b \in EqualityTypes :
            /\ op' = "TypeName.__eq__"
            /\ args' = [self |-> a, other |-> b]
            /\ res' = PyEq(a, b)

\* the body of a loop or branch is built, a rewrite pass processes the
\* children of the block, and the block is rendered
RenderRewrittenBlock ==
    /\ op = "init"
    /\ \E body \in SourceBodies, f \in BodyTransforms :
            LET built == WrapBody(body)
                ast == [built EXCEPT !.statements =
                            StatementList_process_children(built.statements, f).statements]
            IN /\ op' = "visitBlock"
               /\ args' = [built |-> built, f |-> f, ast |-> ast]
               /\ res' = Ret(visitBlock(ast))

\* ConstructorOrFunctionDefinition(idf, [], [], return_parameters, Block([]))
NewFunctionDefinition ==
    /\ op = "init"
    /\ \E idf \in {NoneVal, Identifier(1, "f")}, return_parameters \in ReturnParameterLists :
            /\ op' = "ConstructorOrFunctionDefinition.__init__"
            /\ args' = [idf |-> idf, return_parameters |-> return_parameters]
            /\ res' = ConstructorOrFunctionDefinition(idf, return_parameters, EmptyBlock,
                                                       "function")


\* rebuild_ast(ast) and the code of its result
RebuildAst ==
    /\ op = "init"
    /\ \E ast \in RoundTripNodes :
            /\ op' = "rebuild_ast"
            /\ args' = [ast |-> ast]
            /\ res' = LET rebuilt == rebuild_ast(ast)
                      IN [code |-> code(ast), rebuilt |-> rebuilt,
                          again |-> IF Raised(rebuilt) THEN rebuilt ELSE Ret(code(rebuilt.val))]


\* cls(...) for a class of statements
NewStatement ==
    /\ op = "init"
    /\ \E cls \in StatementClasses :
         \E a \in Arguments(cls) :
            /\ op' = "Statement.__init__"
            /\ args' = [cls |-> cls, a |-> a]
            /\ res' = Ret(New(cls, a))


\* e.is_lvalue() and e.is_rvalue() for the expression e below chain
IsLvalue ==
    /\ op = "init"
    /\ \E cls \in LocationClasses, chain \in ExpressionChains :
            /\ op' = "is_lvalue"
            /\ args' = [cls |-> cls, chain |-> chain]
            /\ res' = [is_lvalue |-> TupleOrLocationExpr_is_lvalue(Tree(cls, chain), 1),
                       is_rvalue |-> TupleOrLocationExpr_is_rvalue(Tree(cls, chain), 1)]


\* n.get_related_function(), n.get_related_contract() and
\* n.is_in_assignment_lefthand() for the node n below chain
RelatedNodes ==
    /\ op = "init"
    /\ \E cls \in TreeClasses :
         \E chain \in ChainsFrom(Kind(cls), MaxHeight) :
            /\ op' = "get_related"
            /\ args' = [cls |-> cls, chain |-> chain]
            /\ res' = LET heap == Tree(cls, chain)
                      IN [function |-> get_related_function(heap, 1),
                          contract |-> get_related_contract(heap, 1),
                          lefthand |-> is_in_assignment_lefthand(heap, 1, 1)]


\* f = ConstructorOrFunctionDefinition(...) followed by the steps; the result
\* lists privacy_type and requires_verification as read after construction
\* and after each step
AssignRequiresVerification ==
    /\ op = "init"
    /\ \E steps \in StepSequences :
            /\ op' = "requires_verification"
            /\ args' = [steps |-> steps]
            /\ res' = LET f == ConstructorOrFunctionDefinition(Identifier(1, "f"),
                                                               [kind |-> "None"], EmptyBlock,
                                                               "function").val
                      IN [i \in 1..(Len(steps) + 1) |->
                            [privacy_type |-> after(f, steps, i - 1).privacy_type,
                             requires_verification |->
                                requires_verification(after(f, steps, i - 1))]]

Next ==
    \/ NewNumberLiteralType
    \/ CanRepresent
    \/ Convert
    \/ Compatible
    \/ CombineType
    \/ CombinePrivacy
    \/ AnnotatedEquals
    \/ NewInstanceTargets
    \/ ContractGetItem
    \/ RewriteStatementList
    \/ ListChildren
    \/ RenderAssignment
    \/ RenderSliceAssignment
    \/ RenderStatementList
    \/ TypeEquals
    \/ RenderRewrittenBlock
    \/ NewFunctionDefinition
    \/ RebuildAst
    \/ NewStatement
    \/ IsLvalue
    \/ RelatedNodes
    \/ AssignRequiresVerification

Spec == Init /\ [][Next]_vars

-----------------------------------------------------------------------------
(* Properties.  The range of a numeric type, stated on its own.             *)

\* 2^n - 1
PowMinusOne(n) == [neg |-> FALSE, mag |-> PowMag(n, -1)]

\* -2^(w-1) <= v <= 2^(w-1) - 1 when signed, 0 <= v <= 2^w - 1 when unsigned
InRange(v, signed, w) ==
    IF signed
    THEN BigLeq(BigNeg(Shl1(w - 1)), v) /\ BigLeq(v, PowMinusOne(w - 1))
    ELSE ~v.neg /\ BigLeq(v, PowMinusOne(w))

\* the least number of bits that hold v: two's complement for negative v
RequiredBits(v) ==
    CHOOSE n \in 0..(Len(v.mag) + 1) :
        /\ InRange(v, v.neg, n)
        /\ \A m \in 0..(n - 1) : ~InRange(v, v.neg, m)

\* the required bit count rounded up to a multiple of 8, at least 8, at most 256
ClampedWidth(v) ==
    LET r == ((RequiredBits(v) + 7) \div 8) * 8
    IN IF r < 8 THEN 8 ELSE IF r > 256 THEN 256 ELSE r

\* C6: for every integer literal value v, constructing its number-literal type
\* succeeds, and the derived bit width is the required bit count of v (two's
\* complement for negative v) rounded up to the next multiple of 8, at least 8
\* and clamped to at most 256.
C6_WidthClampedForEveryValue ==
    op = "NumberLiteralType" =>
        /\ ~Raised(res)
        /\ elem_bitwidth(res.val) = ClampedWidth(args.v)

\* C7: the range test of a numeric type of width w accepts exactly
\* -2^(w-1) .. 2^(w-1)-1 when signed and 0 .. 2^w-1 when unsigned; and for every
\* literal value v whose literal type exists, the abstract type produced by
\* to_abstract_type accepts v while the type of the same signedness that is 8
\* bits narrower (when one exists) rejects it.
C7_RangeTestAndSmallestAbstractType ==
    /\ op = "can_represent" =>
          res.val = InRange(args.v, args.self.signed, elem_bitwidth(args.self))
    /\ (op = "NumberLiteralType" /\ ~Raised(res)) =>
          LET abs == to_abstract_type(res.val)
              w == elem_bitwidth(abs)
              narrower == IF abs.signed
                          THEN IntTypeName(NameWithWidth("int", w - 8))
                          ELSE UintTypeName(NameWithWidth("uint", w - 8))
          IN /\ abs.signed = args.v.neg
             /\ abs.cls = (IF args.v.neg THEN "IntTypeName" ELSE "UintTypeName")
             /\ InRange(args.v, abs.signed, w)
             /\ can_represent(abs, args.v)
             /\ w > 8 => ~can_represent(narrower, args.v)

\* C7 witness: 127 fits the signed 8-bit type, and the range test said so
C7_Witness_127FitsInt8 ==
    /\ op = "can_represent"
    /\ args.self = IntTypeName(NameWithWidth("int", 8))
    /\ args.v = FromInt(127)
    /\ res.val = TRUE

\* C3 as claimed: a number-literal type with value v converts implicitly to a
\* non-literal numeric type T exactly when T's range test accepts v, to the
\* address type exactly when v is non-negative and its derived width is 160, and
\* to no other non-literal type.
C3_Claimed_OnlyAddressBesidesNumeric ==
    (op = "implicitly_convertible_to" /\ args.self.cls = "NumberLiteralType"
        /\ ~is_literal(args.other)) =>
        /\ ~Raised(res)
        /\ res.val = (CASE is_numeric(args.other) -> can_represent(args.other, value(args.self))
                        [] args.other.cls = "AddressTypeName" ->
                             ~value(args.self).neg /\ elem_bitwidth(args.self) = 160
                        [] OTHER -> FALSE)

\* C3 as amended: the same, with the address-payable type accepted beside the
\* address type for a non-negative literal of width exactly 160.
C3_LiteralConvertsToFittingNumericOrAddress ==
    (op = "implicitly_convertible_to" /\ args.self.cls = "NumberLiteralType"
        /\ ~is_literal(args.other)) =>
        /\ ~Raised(res)
        /\ res.val = (CASE is_numeric(args.other) ->
                             InRange(value(args.self), args.other.signed, elem_bitwidth(args.other))
                        [] args.other.cls \in {"AddressTypeName", "AddressPayableTypeName"} ->
                             ~value(args.self).neg /\ elem_bitwidth(args.self) = 160
                        [] OTHER -> FALSE)

\* C3 witness: the literal 2^159, 160 bits wide, converts to address payable
C3_Witness_160BitLiteralToAddressPayable ==
    /\ op = "implicitly_convertible_to"
    /\ args.self.cls = "NumberLiteralType"
    /\ value(args.self) = Shl1(159)
    /\ args.other = AddressPayableTypeName
    /\ res.val = TRUE

\* C4 as claimed: among all non-literal numeric types (int/uint of any width,
\* unset width counting as 256 bits, and the generic number type) a type converts
\* implicitly to another exactly when both have the same signedness and the
\* target is at least as wide; no unsigned type converts to a signed type or the
\* reverse.
C4_Claimed_SameSignWideningOnly ==
    (op = "implicitly_convertible_to" /\ args.self \in NonLiteralNumericTypes
        /\ args.other \in NonLiteralNumericTypes) =>
        /\ ~Raised(res)
        /\ res.val = (args.self.signed = args.other.signed
                      /\ elem_bitwidth(args.other) >= elem_bitwidth(args.self))

\* C4 as amended: an int type converts to exactly the int types of greater or
\* equal width and a uint type to exactly the uint types of greater or equal
\* width (unset width counting as 256 bits), so never to a narrower type and
\* never between int and uint; every int and uint type also converts to the
\* generic number type, and the generic number type converts only to itself.
C4_WideningWithinIntAndUint ==
    (op = "implicitly_convertible_to" /\ args.self \in NonLiteralNumericTypes
        /\ args.other \in NonLiteralNumericTypes) =>
        /\ ~Raised(res)
        /\ res.val = (CASE args.other.cls = "NumberTypeName" -> TRUE
                        [] args.self.cls = "NumberTypeName" -> FALSE
                        [] OTHER -> /\ args.self.cls = args.other.cls
                                    /\ elem_bitwidth(args.other) >= elem_bitwidth(args.self))

\* C4 witness: uint8 converts to the generic (signed) number type
C4_Witness_Uint8ToGenericNumber ==
    /\ op = "implicitly_convertible_to"
    /\ args.self = UintTypeName(NameWithWidth("uint", 8))
    /\ args.other = NumberTypeName_any
    /\ res.val = TRUE

\* the conversion the other way round, for a recorded conversion call
ConvertsBack == implicitly_convertible_to(args.other, args.self)

\* C8 as claimed: for any two non-literal int/uint types A and B that do not
\* compare equal, A converts to B and B converts to A never both hold.
C8_Claimed_UnequalNeverBothWays ==
    (op = "implicitly_convertible_to" /\ args.self \in IntTypes \cup UintTypes
        /\ args.other \in IntTypes \cup UintTypes
        /\ ~PyEq(args.self, args.other).val) =>
        ~(res.val /\ ConvertsBack.val)

\* C8 as amended: the same for any two int/uint types that do not compare
\* equal, except an unset-width type (int, uint) paired with the 256-bit type of
\* the same signedness (int256, uint256): those two compare unequal and convert
\* both ways.
C8_UnequalNeverBothWaysButAlias ==
    (op = "implicitly_convertible_to" /\ args.self \in IntTypes \cup UintTypes
        /\ args.other \in IntTypes \cup UintTypes
        /\ ~PyEq(args.self, args.other).val) =>
        ((res.val /\ ConvertsBack.val)
            <=> (/\ args.self.cls = args.other.cls
                 /\ {args.self.name.num, args.other.name.num} = {NoNum, <<FromInt(256)>>}))

\* C8 witness: uint8 and uint16 compare unequal; uint8 converts to uint16 and
\* uint16 does not convert back
C8_Witness_Uint8Uint16OneWay ==
    /\ op = "implicitly_convertible_to"
    /\ args.self = UintTypeName(NameWithWidth("uint", 8))
    /\ args.other = UintTypeName(NameWithWidth("uint", 16))
    /\ res.val = TRUE
    /\ ~ConvertsBack.val
    /\ ~PyEq(args.self, args.other).val

\* whichever side the other converts into: a when b converts to a, otherwise b
\* when a converts to b, otherwise 'no common type'
WhicheverSideConverts(a, b) ==
    IF implicitly_convertible_to(b, a).val THEN a
    ELSE IF implicitly_convertible_to(a, b).val THEN b
    ELSE NoneVal

\* both conversions between a and b return (neither faults)
ConversionsReturn(a, b) ==
    ~Raised(implicitly_convertible_to(a, b)) /\ ~Raised(implicitly_convertible_to(b, a))

\* C5: for non-tuple types A and B, combined_type(A,B) returns A when B
\* implicitly converts to A, otherwise B when A implicitly converts to B,
\* otherwise 'no common type'; for two number literals (or two boolean
\* literals) the caller flag decides between the 'still literal' marker and the
\* combined type of the abstract types (bool for boolean literals).
C5_Claimed_CombinedTypeForEveryPair ==
    (op = "combined_type" /\ args.self.cls # "TupleType" /\ args.other.cls # "TupleType") =>
        /\ ~Raised(res)
        /\ res.val =
             (CASE args.self.cls = "NumberLiteralType" /\ args.other.cls = "NumberLiteralType" ->
                     IF args.convert_literals
                     THEN WhicheverSideConverts(to_abstract_type(args.self),
                                                to_abstract_type(args.other))
                     ELSE LitVal
                [] args.self.cls = "BooleanLiteralType" /\ args.other.cls = "BooleanLiteralType" ->
                     IF args.convert_literals THEN BoolTypeName ELSE LitVal
                [] OTHER -> WhicheverSideConverts(args.self, args.other))

\* C5: for non-tuple types A and B whose conversions return, combined_type(A,B)
\* is A when B implicitly converts to A, otherwise B when A implicitly converts
\* to B, otherwise 'no common type'; when both are number literals (or both
\* boolean literals) the caller flag decides: unset gives the 'still literal'
\* marker, set gives the combined type of the two literals' abstract types
\* (bool for boolean literals).
C5_CombinedTypeIsTheSideConvertedInto ==
    (op = "combined_type" /\ args.self.cls # "TupleType" /\ args.other.cls # "TupleType"
        /\ ConversionsReturn(args.self, args.other)) =>
        /\ ~Raised(res)
        /\ res.val =
             (CASE args.self.cls = "NumberLiteralType" /\ args.other.cls = "NumberLiteralType" ->
                     IF args.convert_literals
                     THEN WhicheverSideConverts(to_abstract_type(args.self),
                                                to_abstract_type(args.other))
                     ELSE LitVal
                [] args.self.cls = "BooleanLiteralType" /\ args.other.cls = "BooleanLiteralType" ->
                     IF args.convert_literals THEN BoolTypeName ELSE LitVal
                [] OTHER -> WhicheverSideConverts(args.self, args.other))

\* C5 witness: the literals 127 and 256 with the flag set combine to uint16
C5_Witness_TwoLiteralsWiden ==
    /\ op = "combined_type"
    /\ args.self.cls = "NumberLiteralType" /\ value(args.self) = FromInt(127)
    /\ args.other.cls = "NumberLiteralType" /\ value(args.other) = Shl1(8)
    /\ args.convert_literals
    /\ res = Ret(UintTypeName(NameWithWidth("uint", 16)))

-----------------------------------------------------------------------------
(* Privacy labels, stated on their own: the label key a label stands for.   *)

Unresolvable == <<"unresolvable", 0>>

\* the key of a label: the public / caller / tee singleton, the identifier of the
\* declaration a named-owner label refers to (through the instantiated key of a
\* mapping's key label), and Unresolvable for everything else
RECURSIVE LabelKey(_)
LabelKey(e) ==
    CASE e.cls \in SingletonClasses -> <<e.cls, 0>>
      [] e.cls = "IdentifierExpr" /\ e.target.kind = "decl" -> <<"Identifier", e.target.id>>
      [] e.cls = "IdentifierExpr" /\ e.target.kind = "Mapping" ->
            IF e.target.instantiated_key.cls = "None" THEN Unresolvable
            ELSE LabelKey(e.target.instantiated_key)
      [] OTHER -> Unresolvable

\* the result the claimed case analysis gives for self, other under the oracle
ClaimedCombination(self, analysis, other) ==
    LET ke == LabelKey(other.privacy_annotation)
        ka == LabelKey(self.privacy_annotation)
    IN IF ke = Unresolvable \/ ka = Unresolvable THEN NoneVal
       ELSE IF ke = ka \/ (~analysis.none /\ <<ke, ka>> \in analysis.same)
            THEN self.privacy_annotation
       ELSE IF self.privacy_annotation.cls = "AllExpr" THEN other.privacy_annotation
       ELSE NoneVal

IsScalarCombination ==
    /\ op = "combined_privacy"
    /\ args.self.type_name.cls # "TupleType"
    /\ args.other.type_name.cls # "TupleType"

\* C1: combined_privacy on two scalar annotated types: if either side's label
\* cannot be resolved to a label key the result is failure; if the two keys are
\* equal or the oracle reports them in the same partition the result is this
\* side's annotation; otherwise, if this side is public, the result is the other
\* side's annotation; in every remaining case the result is failure.
C1_Claimed_ScalarCombination ==
    IsScalarCombination =>
        /\ ~Raised(res)
        /\ res.val = ClaimedCombination(args.self, args.analysis, args.other)

\* C1, where it holds: the same case analysis whenever the call returns
C1_ScalarCombinationWhenItReturns ==
    (IsScalarCombination /\ ~Raised(res)) =>
        res.val = ClaimedCombination(args.self, args.analysis, args.other)

\* C1: the call faults exactly when a label is an identifier whose target is
\* not set, or a mapping's key label whose mapping has no instantiated key
C1_FaultsExactlyOnUnsetTargets ==
    IsScalarCombination =>
        (Raised(res) <=>
            \E l \in {args.self.privacy_annotation, args.other.privacy_annotation} :
                /\ l.cls = "IdentifierExpr"
                /\ \/ l.target.kind = "None"
                   \/ l.target.kind = "Mapping" /\ l.target.instantiated_key.cls = "None"
                   \/ l.target.kind = "Mapping"
                        /\ l.target.instantiated_key.cls = "IdentifierExpr"
                        /\ l.target.instantiated_key.target.kind = "None")

\* C1: combine(public, caller-private) with no oracle yields caller-private
C1_Reached_PublicYieldsToCaller ==
    /\ IsScalarCombination
    /\ args.self.privacy_annotation.cls = "AllExpr"
    /\ args.other.privacy_annotation.cls = "MeExpr"
    /\ args.analysis.none
    /\ res = Ret(args.other.privacy_annotation)

\* the labels the claim of C2 names: public, caller, tee, and a named owner
\* whose declaration is set
NamedLabel(l) ==
    l.cls \in SingletonClasses \/ (l.cls = "IdentifierExpr" /\ l.target.kind = "decl")

\* C2: two AnnotatedTypeNames are equal exactly when their types are equal and
\* their labels are equal, where public, caller and tee are each equal to every
\* other instance of the same kind and two named-owner labels are equal exactly
\* when they refer to the same declared symbol.
C2_Claimed_LabelsCompareBySymbol ==
    (op = "AnnotatedTypeName.__eq__" /\ NamedLabel(args.self.privacy_annotation)
        /\ NamedLabel(args.other.privacy_annotation)) =>
        /\ ~Raised(res)
        /\ res.val = (/\ PyEq(args.self.type_name, args.other.type_name).val
                      /\ LabelKey(args.self.privacy_annotation)
                            = LabelKey(args.other.privacy_annotation))

\* C2, what the code does: a named-owner label equals only the same node
C2_NamedOwnerLabelsCompareByNode ==
    (op = "AnnotatedTypeName.__eq__" /\ NamedLabel(args.self.privacy_annotation)
        /\ NamedLabel(args.other.privacy_annotation)) =>
        /\ ~Raised(res)
        /\ res.val = (/\ PyEq(args.self.type_name, args.other.type_name).val
                      /\ IF args.self.privacy_annotation.cls = "IdentifierExpr"
                         THEN args.self.privacy_annotation = args.other.privacy_annotation
                         ELSE args.self.privacy_annotation.cls
                                = args.other.privacy_annotation.cls)

\* C9: implicitly_convertible_to, compatible_with, combined_type and
\* combined_privacy never raise for any pair of type names / annotated types
\* (tuples of different arity, a tuple against a non-tuple and user-defined
\* types whose target is not yet resolved included).
C9_Claimed_NeverRaise ==
    op \in {"implicitly_convertible_to", "compatible_with", "combined_type", "combined_privacy"}
        => ~Raised(res)


-----------------------------------------------------------------------------
(* Instance targets.                                                        *)

\* the declaration an identifier expression is resolved to is one InstanceTarget
\* accepts
ResolvedIdentifier(e) ==
    /\ e.cls = "IdentifierExpr"
    /\ e.target.kind = "decl"
    /\ e.target.cls \in TargetDeclarationClasses

\* an index expression whose leftmost identifier is resolved
ResolvedIndex(e) ==
    /\ e.cls = "IndexExpr"
    /\ ~Raised(get_leftmost_identifier(e))
    /\ ResolvedIdentifier(get_leftmost_identifier(e).val)

\* C10: two distinct identifier-expression nodes whose target is the same
\* declaration (of a variable, a parameter or a state variable) produce equal
\* instance targets (declaration, None, None) with equal hashes; two index expressions on the same declared mapping with
\* different key expressions produce unequal instance targets whose first
\* component is the same base declaration.
C10_SameDeclarationSameTarget ==
    op = "InstanceTarget" =>
        /\ (ResolvedIdentifier(args.self) /\ ResolvedIdentifier(args.other)
                /\ args.self.id # args.other.id
                /\ args.self.target = args.other.target) =>
              /\ ~Raised(res)
              /\ res.val.self.key = <<args.self.target, NoneVal, NoneVal>>
              /\ res.val.other.key = <<args.self.target, NoneVal, NoneVal>>
              /\ res.val.eq
              /\ res.val.hash_self = res.val.hash_other
        /\ (ResolvedIndex(args.self) /\ ResolvedIndex(args.other)
                /\ args.self.id # args.other.id
                /\ get_leftmost_identifier(args.self).val.target
                      = get_leftmost_identifier(args.other).val.target
                /\ args.self.key # args.other.key) =>
              /\ ~Raised(res)
              /\ ~res.val.eq
              /\ res.val.self.key[1] = get_leftmost_identifier(args.self).val.target
              /\ res.val.other.key[1] = res.val.self.key[1]

\* C10 witness: identifier nodes 1 and 2, both resolved to the same state
\* variable, give equal targets
C10_Witness_TwoNodesOneDeclaration ==
    /\ op = "InstanceTarget"
    /\ args.self.cls = "IdentifierExpr" /\ args.other.cls = "IdentifierExpr"
    /\ args.self.id = 1 /\ args.other.id = 2
    /\ args.self.target = Declaration("StateVariableDeclaration", 1)
    /\ args.other.target = args.self.target
    /\ res.val.eq

\* C10, the second case reached: m[me] and m[1] on the same state variable
C10_Reached_SameMappingTwoKeys ==
    /\ op = "InstanceTarget"
    /\ ResolvedIndex(args.self) /\ ResolvedIndex(args.other)
    /\ args.self.key.cls = "MeExpr" /\ args.other.key.cls = "NumberLiteralExpr"
    /\ ~Raised(res) /\ ~res.val.eq
    /\ res.val.self.key[1] = res.val.other.key[1]

\* a member access on an identifier whose declaration InstanceTarget accepts
ResolvedMemberAccess(e) ==
    /\ e.cls = "MemberAccessExpr"
    /\ ResolvedIdentifier(e.expr)

\* C11: the instance target of a location does not depend on the expression
\* node that referenced it: two distinct nodes denoting the same member of the
\* same declared variable, or the same declared mapping indexed by the same key,
\* produce instance targets that are equal and hash equally.
C11_Claimed_TargetIndependentOfNode ==
    op = "InstanceTarget" =>
        /\ (ResolvedMemberAccess(args.self) /\ ResolvedMemberAccess(args.other)
                /\ args.self.id # args.other.id
                /\ args.self.expr.target = args.other.expr.target
                /\ args.self.member.name = args.other.member.name) =>
              /\ ~Raised(res)
              /\ res.val.eq
              /\ res.val.hash_self = res.val.hash_other
        /\ (ResolvedIndex(args.self) /\ ResolvedIndex(args.other)
                /\ args.self.id # args.other.id
                /\ get_leftmost_identifier(args.self).val.target
                      = get_leftmost_identifier(args.other).val.target
                /\ args.self.arr.cls = "IdentifierExpr" /\ args.other.arr.cls = "IdentifierExpr"
                /\ ExprEq(args.self.key, args.other.key)) =>
              /\ ~Raised(res)
              /\ res.val.eq
              /\ res.val.hash_self = res.val.hash_other

\* C11, what the code does for index expressions: two distinct index nodes never
\* give equal targets, each target holding its own node as third component
C11_IndexTargetsHoldTheirNode ==
    (op = "InstanceTarget" /\ ResolvedIndex(args.self) /\ ResolvedIndex(args.other)
        /\ args.self.id # args.other.id) =>
        /\ ~Raised(res)
        /\ res.val.self.key[3] = args.self
        /\ res.val.other.key[3] = args.other
        /\ ~res.val.eq

\* C11, what the code does for member accesses: the targets are equal exactly
\* when the base declaration and the member Identifier node are the same
C11_MemberTargetsCompareMemberNodes ==
    (op = "InstanceTarget" /\ ResolvedMemberAccess(args.self)
        /\ ResolvedMemberAccess(args.other)) =>
        /\ ~Raised(res)
        /\ res.val.eq = (/\ args.self.expr.target = args.other.expr.target
                         /\ args.self.member.id = args.other.member.id)

\* the expression nodes among the operands
IsExpression(e) == e.cls \in {"IdentifierExpr", "MemberAccessExpr", "IndexExpr", "NumberLiteralExpr"}

\* the left-most base of an index expression: what remains after stripping
\* every index
RECURSIVE LeftmostBase(_)
LeftmostBase(e) == IF e.cls = "IndexExpr" THEN LeftmostBase(e.arr) ELSE e

\* a variable, parameter or state-variable declaration
VariableLikeDeclaration(t) == t.kind = "decl" /\ t.cls \in TargetDeclarationClasses

\* the declaring symbol of a supported location: of the identifier, of the
\* accessed expression, of the left-most base
DeclaringSymbol(e) ==
    CASE e.cls = "IdentifierExpr" -> e.target
      [] e.cls = "MemberAccessExpr" -> e.expr.target
      [] e.cls = "IndexExpr" -> LeftmostBase(e).target

\* a plain identifier, a member access, or an index expression whose left-most
\* base is an identifier
SupportedShape(e) ==
    \/ e.cls \in {"IdentifierExpr", "MemberAccessExpr"}
    \/ e.cls = "IndexExpr" /\ LeftmostBase(e).cls = "IdentifierExpr"

\* C12: instance-target canonicalization faults, producing no target, for every
\* expression that is not a plain identifier, a member access, or an index
\* expression whose left-most base is an identifier, and whenever the resolved
\* declaring symbol is not a variable, parameter or state-variable declaration;
\* otherwise it produces a target, and for a nested index a[i][j] the target is
\* (declaration of a, outermost key j, the full index expression).
C12_FaultsOnUnsupportedLocations ==
    (op = "InstanceTarget" /\ args.other = args.self /\ IsExpression(args.self)) =>
        /\ Raised(res) <=> ~(SupportedShape(args.self)
                                /\ VariableLikeDeclaration(DeclaringSymbol(args.self)))
        /\ (~Raised(res) /\ args.self.cls = "IndexExpr") =>
                res.val.self.key = <<LeftmostBase(args.self).target, args.self.key, args.self>>

\* C12 witness: the nested index m[me][1] gives (m, 1, m[me][1])
C12_Witness_NestedIndex ==
    /\ op = "InstanceTarget" /\ args.other = args.self
    /\ args.self.cls = "IndexExpr" /\ args.self.arr.cls = "IndexExpr"
    /\ args.self.key.cls = "NumberLiteralExpr"
    /\ ~Raised(res)
    /\ res.val.self.key = <<Declaration("StateVariableDeclaration", 1), args.self.key, args.self>>

\* C12, a fault reached: an index whose left-most base is a member access
C12_Reached_UnsupportedShapeFaults ==
    /\ op = "InstanceTarget" /\ args.other = args.self
    /\ args.self.cls = "IndexExpr" /\ args.self.arr.cls = "MemberAccessExpr"
    /\ res = Raise("CloakCompilerError")

-----------------------------------------------------------------------------
(* Contract definitions.                                                    *)

IsConstructorLookup == op = "ContractDefinition.__getitem__" /\ args.key = "constructor"

\* the declared constructors of the contract looked up
DeclaredConstructors ==
    {i \in 1..Len(args.self.units) :
        /\ args.self.units[i].cls = "ConstructorOrFunctionDefinition"
        /\ args.self.units[i].kind = "constructor"}

\* C13: looking up 'constructor' on a contract definition: with no declared
\* constructor it returns a newly synthesized empty constructor whose parent is
\* the contract; with exactly one declared constructor it returns that one; with
\* more than one it faults.  The contract's member list is unchanged by the
\* lookup in all three cases.
C13_Claimed_ConstructorLookup ==
    IsConstructorLookup =>
        CASE Cardinality(DeclaredConstructors) = 0 ->
                /\ ~Raised(res)
                /\ res.val.ret.id = 0
                /\ res.val.ret.parameters = <<>> /\ res.val.ret.body = EmptyBlock
                /\ res.val.ret.parent = args.self
                /\ res.val.self.units = args.self.units
          [] Cardinality(DeclaredConstructors) = 1 ->
                /\ ~Raised(res)
                /\ res.val.ret = args.self.units[CHOOSE i \in DeclaredConstructors : TRUE]
                /\ res.val.self.units = args.self.units
          [] OTHER -> Raised(res)

\* C13, what the code does: with no declared constructor the lookup fails the
\* assert on the identifier of the constructor it builds; the other two cases
\* are as stated
C13_NoConstructorFaults ==
    IsConstructorLookup =>
        CASE Cardinality(DeclaredConstructors) = 0 -> res = Raise("AssertionError")
          [] Cardinality(DeclaredConstructors) = 1 ->
                /\ ~Raised(res)
                /\ res.val.ret = args.self.units[CHOOSE i \in DeclaredConstructors : TRUE]
                /\ res.val.self.units = args.self.units
          [] OTHER -> res = Raise("ValueError")

-----------------------------------------------------------------------------
(* Statement lists.                                                         *)

\* what a returned value contributes: a node itself, a list its elements in
\* order, nothing no statement
Contribution(r) ==
    CASE r.kind = "node" -> <<r.node>>
      [] r.kind = "list" -> r.items
      [] OTHER -> <<>>

\* the in-order concatenation of the contributions of f's results for the
\* statements from position i on
RECURSIVE ConcatenatedFrom(_, _, _)
ConcatenatedFrom(statements, f, i) ==
    IF i > Len(statements) THEN <<>>
    ELSE Contribution(f[statements[i].id]) \o ConcatenatedFrom(statements, f, i + 1)

\* C14: rewriting a statement list with a transform f replaces its statements by
\* the in-order concatenation of f's results: a returned node contributes
\* itself, a returned list contributes its elements in order at that position,
\* and None contributes no statement; f is applied exactly once to each original
\* statement in original order.
C14_RewriteConcatenatesResults ==
    op = "StatementList.process_children" =>
        /\ ~Raised(res)
        /\ res.val.statements = ConcatenatedFrom(args.statements, args.f, 1)
        /\ res.val.calls = args.statements

\* C14 witness: of three statements the first is dropped, the second kept and
\* the third replaced by two, leaving three statements
C14_Witness_DropKeepSplice ==
    /\ op = "StatementList.process_children"
    /\ Len(args.statements) = 3
    /\ args.f[1] = ReturnsNone
    /\ args.f[2] = ReturnsNode(Stmt(2))
    /\ args.f[3] = ReturnsList(<<Stmt(23), Stmt(3)>>)
    /\ res.val.statements = <<Stmt(2), Stmt(23), Stmt(3)>>

-----------------------------------------------------------------------------
(* Children.                                                                *)

\* the nodes held in a field value
Held(v) == CASE v.kind = "node" -> <<v.node>> [] v.kind = "list" -> v.items [] OTHER -> <<>>

\* every present child node held in the fields of a node, in declaration order
RECURSIVE PresentChildrenFrom(_, _)
PresentChildrenFrom(node, p) ==
    IF p > Len(ChildFields[node.cls]) THEN <<>>
    ELSE Held(node.fields[ChildFields[node.cls][p]]) \o PresentChildrenFrom(node, p + 1)

\* C15: for every node variant, children() returns every present child node
\* held in the node's fields, each exactly once and in declaration order,
\* omitting none (try/catch statements, revert statements, tuple-destructuring
\* declarations, slice, range-index and inline-array expressions included), and
\* the generic rewrite applies the transform to each of those children.
C15_Claimed_ChildrenOmitNone ==
    op = "children" =>
        /\ ~Raised(res)
        /\ res.val.children = PresentChildrenFrom(args.self, 1)
        /\ add_child(res.val.calls) = PresentChildrenFrom(args.self, 1)

\* the classes whose process_children covers the fields of their constructor
CoveredClasses == {cls \in DOMAIN ChildFields : ProcessedFields[cls] = ChildFields[cls]}

\* C15, what the code does: the classes with a process_children of their own
\* return every present child in order; CatchClause, TryStatement,
\* RevertStatement, TupleVariableDeclarationStatement, RangeIndexExpr, SliceExpr
\* and InlineArrayExpr have none and return no child at all
C15_ClassesWithoutRewriteHaveNoChildren ==
    op = "children" =>
        /\ ~Raised(res)
        /\ res.val.children = (IF args.self.cls \in CoveredClasses
                               THEN PresentChildrenFrom(args.self, 1) ELSE <<>>)
        /\ DOMAIN ChildFields \ CoveredClasses =
              {"CatchClause", "TryStatement", "RevertStatement",
               "TupleVariableDeclarationStatement", "RangeIndexExpr", "SliceExpr",
               "InlineArrayExpr"}

-----------------------------------------------------------------------------
(* Compound assignments and increments.                                     *)

\* a compound assignment or an increment/decrement of the source text that
\* the builder accepted
BuiltShorthand ==
    /\ op = "visitAssignmentStatement"
    /\ args.source.kind \in {"assign", "pre", "post"}
    /\ args.source.kind = "assign" => args.source.token # "eq"
    /\ ~Raised(args.ast)

\* the operator of the source text and its right operand (1 for ++ and --)
SourceOperator ==
    IF args.source.kind = "assign"
    THEN CHOOSE o \in BinaryOperators : o \o "=" = AssignmentOperators[args.source.token]
    ELSE IF args.source.token = "++" THEN "+" ELSE "-"

SourceOperand ==
    IF args.source.kind = "assign" THEN args.source.rhs ELSE NumberLiteralExpr(1)

\* the statement is a plain assignment to x whose right side calls the
\* operator on (x, e) or (x, 1), tagged with the operator of the source text
StoredDesugared ==
    LET ast == args.ast.val
    IN /\ ast.cls = "AssignmentStatement"
       /\ ast.lhs.idf.name = "x"
       /\ ast.rhs.cls = "FunctionCallExpr"
       /\ ast.rhs.func = [cls |-> "BuiltinFunction", op |-> SourceOperator]
       /\ ast.rhs.args.args = <<ast.lhs, SourceOperand>>
       /\ ast.op = (IF args.source.kind = "assign" THEN SourceOperator
                    ELSE args.source.kind \o args.source.token)

\* the shorthand of the source text: x op= e;  ++x;  x++;
Shorthand ==
    CASE args.source.kind = "assign" ->
            "x " \o SourceOperator \o "= " \o visit(args.source.rhs) \o ";"
      [] args.source.kind = "pre" -> args.source.token \o "x;"
      [] args.source.kind = "post" -> "x" \o args.source.token \o ";"

\* the desugared form: x = x op e;
Desugared ==
    "x = x " \o SourceOperator \o " " \o visit(SourceOperand) \o ";"

LhsIsPrivate ==
    /\ args.annotated_type.cls # "None"
    /\ args.annotated_type.val.privacy_annotation.cls # "AllExpr"

\* C16: a compound assignment or a pre/post increment/decrement is stored as a
\* plain assignment whose right side is the operator call on (x, e) or (x, 1),
\* tagged with the original operator, and the generator renders the shorthand
\* (x += 1;  ++x;  x++;), never the desugared form, whatever annotated type a
\* later pass has set.
C16_Claimed_ShorthandWhateverDecorations ==
    BuiltShorthand => StoredDesugared /\ res = Ret(Shorthand)

\* C16 as the code has it: stored as the claim says; rendered as the shorthand
\* when the left side has no annotated type or a public one, and as the
\* desugared plain assignment when its annotated type is private
C16_ShorthandUnlessPrivateLhs ==
    BuiltShorthand =>
        /\ StoredDesugared
        /\ res = Ret(IF LhsIsPrivate THEN Desugared ELSE Shorthand)

C16_Witness_PostIncrement ==
    /\ BuiltShorthand
    /\ args.source.kind = "post" /\ args.source.token = "++"
    /\ args.annotated_type.cls # "None" /\ ~LhsIsPrivate
    /\ res = Ret("x++;")

C16_Reached_PrivateLhsDesugared ==
    /\ BuiltShorthand
    /\ args.source.token = "add"
    /\ LhsIsPrivate
    /\ res = Ret("x = x + 1;")

-----------------------------------------------------------------------------
(* Assignments between slices.                                              *)

SliceToSlice ==
    /\ op = "visitAssignmentStatement"
    /\ args.source.kind = "slices"

\* the i-th element of a slice: arr[base + offset+i], the base left out when
\* there is none
ElementText(slice, i) ==
    slice.arr.idf.name \o "["
        \o (IF slice.base = NoneVal THEN "" ELSE slice.base.idf.name \o " + ")
        \o ToString(slice.start_offset + i) \o "]"

RECURSIVE JoinLines(_)
JoinLines(lines) ==
    IF lines = <<>> THEN ""
    ELSE IF Len(lines) = 1 THEN lines[1]
    ELSE lines[1] \o "\n" \o JoinLines(Tail(lines))

\* C17: an assignment between two slices of equal size n is rendered as exactly
\* n assignments L[lbase + loff+i] = R[rbase + roff+i]; for i = 0..n-1, one per
\* line, a base left out when absent; with unequal sizes the generator faults
\* and produces no output.
C17_SliceAssignmentPerElement ==
    SliceToSlice =>
        LET lhs == args.ast.val.lhs
            rhs == args.ast.val.rhs
        IN IF lhs.size = rhs.size
           THEN res = Ret(JoinLines([k \in 1..lhs.size |->
                            ElementText(lhs, k - 1) \o " = " \o ElementText(rhs, k - 1) \o ";"]))
           ELSE Raised(res)

C17_Witness_ThreeElements ==
    /\ SliceToSlice
    /\ args.ast.val.lhs.size = 3 /\ args.ast.val.rhs.size = 3
    /\ args.ast.val.lhs.start_offset = 2 /\ args.ast.val.rhs.start_offset = 0
    /\ res = Ret("a[2] = b[0];\na[3] = b[1];\na[4] = b[2];")

C17_Reached_UnequalSizesFault ==
    /\ SliceToSlice
    /\ args.ast.val.lhs.size = 2 /\ args.ast.val.rhs.size = 3
    /\ res = Raise("AssertionError")

C17_Reached_WithBases ==
    /\ SliceToSlice
    /\ res = Ret("a[i + 1] = b[0];\na[i + 2] = b[1];")

-----------------------------------------------------------------------------
(* Pre-statements.                                                          *)

\* the lines of a statement list in which every statement is preceded by its
\* pre-statements, in the order they were accumulated
RECURSIVE LinesWithPreStatements(_)
LinesWithPreStatements(l) ==
    IF l = <<>> THEN <<>>
    ELSE [j \in 1..Len(l[1].pre_statements) |-> l[1].pre_statements[j].expr.idf.name \o ";"]
            \o <<l[1].expr.idf.name \o ";">>
            \o LinesWithPreStatements(Tail(l))

\* C18: every pre-statement accumulated on a statement is rendered immediately
\* before its owner, in accumulation order, with nothing in between.
C18_Claimed_PreStatementsBeforeOwner ==
    op = "visitStatementList" =>
        res.val.list = JoinLines(LinesWithPreStatements(args.ast.statements))

\* C18, what the code does: the generator renders the statements of the list
\* alone, one per line, and none of their pre-statements
C18_PreStatementsNotRendered ==
    op = "visitStatementList" =>
        /\ res.val.list =
              JoinLines([k \in 1..Len(args.ast.statements) |->
                            args.ast.statements[k].expr.idf.name \o ";"])
        /\ res.val.block =
              (IF args.ast.was_single_statement /\ Len(args.ast.statements) = 1
               THEN "    " \o args.ast.statements[1].expr.idf.name \o ";"
               ELSE "{\n" \o JoinLines([k \in 1..Len(args.ast.statements) |->
                            "    " \o args.ast.statements[k].expr.idf.name \o ";"]) \o "\n}")

C18_Reached_PreStatementDropped ==
    /\ op = "visitStatementList"
    /\ Len(args.ast.statements) = 2
    /\ Len(args.ast.statements[2].pre_statements) = 2
    /\ res.val.list = "s1;\ns2;"

-----------------------------------------------------------------------------
(* combined_privacy on tuples.                                              *)

\* combined_privacy is applied to a tuple and a tuple of the same length
IsTupleCombination ==
    /\ op = "combined_privacy"
    /\ args.self.type_name.cls = "TupleType"
    /\ args.other.type_name.cls = "TupleType"
    /\ Len(args.self.type_name.types) = Len(args.other.type_name.types)

\* the list of the scalar combinations of the components
ComponentCombinations ==
    [i \in 1..Len(args.self.type_name.types) |->
        ClaimedCombination(args.self.type_name.types[i], args.analysis,
                           args.other.type_name.types[i])]

\* C19: combined_privacy applied to a tuple-typed annotated type returns a
\* list with exactly one result per component, the i-th being the scalar
\* combination of the i-th components (failure when a label of the pair cannot
\* be resolved); the label of the tuple itself is never consulted.
C19_Claimed_ComponentWiseList ==
    IsTupleCombination =>
        /\ ~Raised(res)
        /\ res.val = ComponentCombinations

\* C19, where it holds: whenever the call returns, whatever the labels of the
\* two tuples themselves are
C19_ComponentWiseListWhenItReturns ==
    (IsTupleCombination /\ ~Raised(res)) => res.val = ComponentCombinations

\* C19: the call faults exactly when a component's label is an identifier
\* whose target is not set; the labels of the tuples themselves do not matter
C19_FaultsOnUnresolvedComponentLabel ==
    IsTupleCombination =>
        (Raised(res) <=>
            \E i \in 1..Len(args.self.type_name.types) :
                \E l \in {args.self.type_name.types[i].privacy_annotation,
                           args.other.type_name.types[i].privacy_annotation} :
                    l.cls = "IdentifierExpr" /\ l.target.kind = "None")

C19_Reached_OwnLabelUnsetStillReturns ==
    /\ IsTupleCombination
    /\ args.self.privacy_annotation.cls = "IdentifierExpr"
    /\ Len(args.self.type_name.types) = 2
    /\ ~Raised(res)
    /\ Len(res.val) = 2
    /\ res.val[1].cls = "MeExpr"

-----------------------------------------------------------------------------
(* Tuple types.                                                             *)

BothTuples == args.self.cls = "TupleType" /\ args.other.cls = "TupleType"

\* the combined types of the component pairs of two tuples of equal length
ComponentTypes ==
    [i \in 1..Len(args.self.types) |->
        combined_type(args.self.types[i].type_name, args.other.types[i].type_name,
                      args.convert_literals)]

\* C20: a tuple converts implicitly to another exactly when both have the same
\* length and every component converts; combined_type of two tuples returns no
\* common type when the lengths differ or when some component pair has no
\* common type, and otherwise the tuple of the component-wise combined types.
C20_Claimed_TupleOperationsComponentWise ==
    /\ (op = "implicitly_convertible_to" /\ BothTuples) =>
            res = Ret(/\ Len(args.self.types) = Len(args.other.types)
                      /\ \A i \in 1..Len(args.self.types) :
                            implicitly_convertible_to(args.self.types[i].type_name,
                                                      args.other.types[i].type_name) = Ret(TRUE))
    /\ (op = "combined_type" /\ BothTuples) =>
            IF \/ Len(args.self.types) # Len(args.other.types)
               \/ \E i \in 1..Len(args.self.types) : ComponentTypes[i] = Ret(NoneVal)
            THEN res = Ret(NoneVal)
            ELSE /\ ~Raised(res)
                 /\ res.val.cls = "TupleType"
                 /\ Len(res.val.types) = Len(args.self.types)
                 /\ \A i \in 1..Len(args.self.types) :
                        res.val.types[i].type_name = ComponentTypes[i].val

\* C20, the conversion half, whenever the call returns: a tuple converts to a
\* tuple exactly when the lengths are equal and every component converts
C20_TupleConvertsComponentWise ==
    (op = "implicitly_convertible_to" /\ BothTuples /\ ~Raised(res)) =>
        res = Ret(/\ Len(args.self.types) = Len(args.other.types)
                  /\ \A i \in 1..Len(args.self.types) :
                        implicitly_convertible_to(args.self.types[i].type_name,
                                                  args.other.types[i].type_name) = Ret(TRUE))

\* C20, what combined_type does: no common type only when the lengths differ;
\* with equal lengths it returns a tuple of the component results, a component
\* without a common type becoming a component whose type name is None
C20_CombinedTupleKeepsMissingComponents ==
    (op = "combined_type" /\ BothTuples /\ ~Raised(res)) =>
        IF Len(args.self.types) # Len(args.other.types) THEN res.val = NoneVal
        ELSE /\ res.val.cls = "TupleType"
             /\ Len(res.val.types) = Len(args.self.types)
             /\ \A i \in 1..Len(args.self.types) :
                    res.val.types[i].type_name = ComponentTypes[i].val

C20_Reached_TupleWithMissingComponent ==
    /\ op = "combined_type" /\ BothTuples /\ ~Raised(res)
    /\ res.val.cls = "TupleType"
    /\ \E i \in 1..Len(res.val.types) : res.val.types[i].type_name = NoneVal

C20_Reached_TupleConverts ==
    /\ op = "implicitly_convertible_to" /\ BothTuples
    /\ Len(args.self.types) = 2
    /\ args.self # args.other
    /\ res = Ret(TRUE)

-----------------------------------------------------------------------------
(* Equality of mapping types.                                               *)

TwoMappings ==
    /\ op = "TypeName.__eq__"
    /\ args.self.cls = "Mapping" /\ args.other.cls = "Mapping"

\* C21: two mapping types are equal exactly when their key types are equal and
\* their annotated value types are equal; the ownership-hint label on the key
\* never influences equality, and mappings with different value types are
\* unequal.  Where the comparison of the key or value types faults, so does the
\* comparison of the mappings.
C21_MappingEqualityIgnoresKeyLabel ==
    TwoMappings =>
        LET keys == PyEq(args.self.key_type, args.other.key_type)
            values == AnnotatedTypeName_eq(args.self.value_type, args.other.value_type)
        IN /\ keys = Ret(FALSE) => res = Ret(FALSE)
           /\ (keys = Ret(TRUE) /\ values = Ret(FALSE)) => res = Ret(FALSE)
           /\ (keys = Ret(TRUE) /\ values = Ret(TRUE)) => res = Ret(TRUE)
           /\ Raised(res) <=> (keys = Ret(TRUE) /\ Raised(values))
           /\ res = PyEq([args.self EXCEPT !.key_label = args.other.key_label], args.other)

C21_Witness_EqualDespiteKeyLabels ==
    /\ TwoMappings
    /\ args.self.key_label.cls = "Identifier" /\ args.other.key_label.cls = "None"
    /\ args.self.key_type.cls = "AddressTypeName"
    /\ res = Ret(TRUE)

C21_Reached_DifferentValueTypesUnequal ==
    /\ TwoMappings
    /\ args.self.key_type = args.other.key_type
    /\ args.self.key_label = args.other.key_label
    /\ args.self.value_type.type_name.cls = "UintTypeName"
    /\ args.other.value_type.type_name.cls = "BoolTypeName"
    /\ res = Ret(FALSE)

-----------------------------------------------------------------------------
(* Equality of array types.                                                 *)

TwoArrays ==
    /\ op = "TypeName.__eq__"
    /\ args.self.cls = "Array" /\ args.other.cls = "Array"

\* the two length expressions are equal: both absent, two literals of the same
\* value, or the same expression node
LengthsEqual ==
    \/ args.self.expr.cls = "None" /\ args.other.expr.cls = "None"
    \/ /\ args.self.expr.cls = "NumberLiteralExpr" /\ args.other.expr.cls = "NumberLiteralExpr"
       /\ args.self.expr.value = args.other.expr.value
    \/ /\ args.self.expr.cls = "IdentifierExpr" /\ args.other.expr.cls = "IdentifierExpr"
       /\ IdentityEq(args.self.expr, args.other.expr)

ElementTypesCompare ==
    ~Raised(AnnotatedTypeName_eq(args.self.value_type, args.other.value_type))

\* C22: two array types are equal exactly when their element types are equal
\* and either both lengths are unknown or both lengths are equal; in particular
\* every array type is equal to itself whatever form its length expression has.
C22_Claimed_ArrayEqualityByLength ==
    (TwoArrays /\ ElementTypesCompare) =>
        /\ res = Ret(/\ AnnotatedTypeName_eq(args.self.value_type, args.other.value_type)
                          = Ret(TRUE)
                      /\ LengthsEqual)
        /\ args.self = args.other => res = Ret(TRUE)

\* C22, what the code does: the lengths count as equal only when both are
\* absent or both are number literals of the same value; an array whose length
\* is any other expression is unequal to every array, itself included
C22_OnlyLiteralLengthsCompareEqual ==
    (TwoArrays /\ ElementTypesCompare) =>
        res = Ret(/\ AnnotatedTypeName_eq(args.self.value_type, args.other.value_type)
                      = Ret(TRUE)
                  /\ \/ args.self.expr.cls = "None" /\ args.other.expr.cls = "None"
                     \/ /\ args.self.expr.cls = "NumberLiteralExpr"
                        /\ args.other.expr.cls = "NumberLiteralExpr"
                        /\ args.self.expr.value = args.other.expr.value)

C22_Reached_ArrayUnequalToItself ==
    /\ TwoArrays
    /\ args.self = args.other
    /\ args.self.expr.cls = "IdentifierExpr"
    /\ res = Ret(FALSE)

-----------------------------------------------------------------------------
(* User-defined types.                                                      *)

QualifiedNameClasses == {"EnumTypeName", "EnumValueTypeName", "StructTypeName",
                         "ContractTypeName"}

\* two enum, enum value, struct or contract types, both resolved
TwoResolvedUserTypes ==
    /\ args.self.cls \in QualifiedNameClasses /\ args.other.cls \in QualifiedNameClasses
    /\ args.self.target.kind = "def" /\ args.other.target.kind = "def"

\* other is a value type of the enum self
ValueOfEnum ==
    /\ args.self.cls = "EnumTypeName" /\ args.other.cls = "EnumValueTypeName"
    /\ args.self.target.kind = "def" /\ args.other.target.kind = "def"
    /\ args.self.target.qn = AllButLast(args.other.target.qn)

\* C23: user-defined types (enum, enum value, struct, contract) compare equal
\* only when their targets' qualified names are identical in length and in
\* every component; an enum value type converts implicitly to its owning enum,
\* while the enum type is neither equal nor implicitly convertible to one of
\* its value types.
C23_Claimed_QualifiedNameIdentity ==
    /\ (op = "TypeName.__eq__" /\ TwoResolvedUserTypes /\ res = Ret(TRUE))
            => args.self.target.qn = args.other.target.qn
    /\ (op \in {"TypeName.__eq__", "implicitly_convertible_to"} /\ ValueOfEnum)
            => res = Ret(FALSE)
    /\ (/\ op = "implicitly_convertible_to"
        /\ args.self.cls = "EnumValueTypeName" /\ args.other.cls = "EnumTypeName"
        /\ args.self.target.kind = "def" /\ args.other.target.kind = "def"
        /\ args.other.target.qn = AllButLast(args.self.target.qn)
        /\ args.other.names = AllButLast(args.self.names))
            => res = Ret(TRUE)

\* one qualified name is a prefix of the other
IsPrefix(p, q) == Len(p) <= Len(q) /\ SubSeq(q, 1, Len(p)) = p

\* C23, what the code does: two resolved user-defined types compare equal
\* exactly when one qualified name is a prefix of the other, so an enum equals
\* each of its value types and converts implicitly to it
C23_EqualWhenOneNameIsAPrefix ==
    /\ (op = "TypeName.__eq__" /\ TwoResolvedUserTypes) =>
            res = Ret(\/ IsPrefix(args.self.target.qn, args.other.target.qn)
                      \/ IsPrefix(args.other.target.qn, args.self.target.qn))
    /\ (op \in {"TypeName.__eq__", "implicitly_convertible_to"} /\ ValueOfEnum)
            => res = Ret(TRUE)

C23_Reached_EnumEqualsItsValue ==
    /\ op = "TypeName.__eq__" /\ ValueOfEnum /\ res = Ret(TRUE)

C23_Reached_EnumConvertsToItsValue ==
    /\ op = "implicitly_convertible_to" /\ ValueOfEnum /\ res = Ret(TRUE)

C23_Reached_ValueConvertsToEnum ==
    /\ op = "implicitly_convertible_to"
    /\ args.self.cls = "EnumValueTypeName" /\ args.other.cls = "EnumTypeName"
    /\ args.other.target.kind = "def"
    /\ res = Ret(TRUE)

-----------------------------------------------------------------------------
(* Blocks.                                                                  *)

\* the statements of the rendered block, one per line, indented
IndentedLines ==
    JoinLines([k \in 1..Len(args.ast.statements) |->
                  "    " \o args.ast.statements[k].expr.idf.name \o ";"])

\* C24: a block renders as a braced, indented statement list unless it is
\* flagged as originally an unbraced single statement, in which case the braces
\* are omitted, also after a rewrite pass has spliced statements into or
\* dropped the statement from a flagged block.
C24_Claimed_FlaggedBlocksNeverBraced ==
    op = "visitBlock" =>
        res = Ret(IF args.ast.was_single_statement THEN IndentedLines
                  ELSE "{\n" \o IndentedLines \o "\n}")

\* C24 as the code has it: the braces are omitted exactly when the block is
\* flagged and holds exactly one statement; a flagged block that a rewrite
\* pass has left with no statement or with several is braced
C24_UnbracedOnlyWithOneStatement ==
    op = "visitBlock" =>
        res = Ret(IF args.ast.was_single_statement /\ Len(args.ast.statements) = 1
                  THEN IndentedLines
                  ELSE "{\n" \o IndentedLines \o "\n}")

C24_Witness_FlaggedBlockAfterSplice ==
    /\ op = "visitBlock"
    /\ args.built.was_single_statement /\ Len(args.built.statements) = 1
    /\ Len(args.ast.statements) = 2
    /\ res = Ret("{\n    s1;\n    s11;\n}")

C24_Reached_FlaggedBlockUnbraced ==
    /\ op = "visitBlock"
    /\ args.ast.was_single_statement
    /\ res = Ret("    s1;")

C24_Reached_FlaggedBlockEmptied ==
    /\ op = "visitBlock"
    /\ args.ast.was_single_statement /\ args.ast.statements = <<>>
    /\ res = Ret("{\n\n}")

-----------------------------------------------------------------------------
(* Return-binding declarations.                                             *)

\* a function definition has been constructed with n return parameters
Constructed ==
    /\ op = "ConstructorOrFunctionDefinition.__init__"
    /\ ~Raised(res)

GivenReturnParameters ==
    IF args.return_parameters.kind = "None" THEN <<>> ELSE args.return_parameters.items

\* C25: a function definition constructed with n return parameters holds
\* exactly n synthesized return-binding declarations, the i-th carrying the
\* i-th return parameter's annotated type and storage location and named from
\* its position and the function's classification at that time (the prefix of
\* verified functions when it is classified ZKP, the TEE prefix otherwise: a
\* new function is classified PUB); each declaration's identifier has that
\* declaration as parent.
C25_OneReturnBindingPerParameter ==
    Constructed =>
        LET decls == res.val.return_var_decls
        IN /\ Len(decls) = Len(GivenReturnParameters)
           /\ res.val.privacy_type = PUB
           /\ \A i \in 1..Len(decls) :
                /\ decls[i].cls = "VariableDeclaration"
                /\ decls[i].annotated_type = GivenReturnParameters[i].annotated_type
                /\ decls[i].storage_location = GivenReturnParameters[i].storage_location
                /\ decls[i].idf.name =
                      (IF res.val.privacy_type = ZKP THEN "cfg.return_zk_var_name"
                       ELSE "cfg.return_tee_var_name") \o "_" \o ToString(i - 1)
                /\ decls[i].idf.parent = [ref |-> "return_var_decls", idx |-> i - 1]

C25_Witness_TwoReturnParameters ==
    /\ Constructed
    /\ Len(GivenReturnParameters) = 2
    /\ GivenReturnParameters[2].storage_location = "memory"
    /\ Len(res.val.return_var_decls) = 2
    /\ res.val.return_var_decls[2].idf.name = "cfg.return_tee_var_name_1"

-----------------------------------------------------------------------------
(* Print-then-reparse.                                                      *)

Rebuilt == op = "rebuild_ast"

\* the node shows a unit: a number literal without source text whose unit is
\* neither None nor empty, or a binary expression with such an operand
RECURSIVE ShowsUnit(_)
ShowsUnit(ast) ==
    CASE ast.cls = "NumberLiteralExpr" -> ast.source_text = "None" /\ ast.unit \notin {"None", ""}
      [] ast.cls = "BooleanLiteralExpr" -> FALSE
      [] ast.cls = "FunctionCallExpr" -> ShowsUnit(ast.args.args[1]) \/ ShowsUnit(ast.args.args[2])

\* C26: rendering is a fixed point of print-then-reparse for literals and
\* binary-operator expressions: the node rebuilt from the code of N has the
\* code of N, character for character.
C26_Claimed_RenderIsFixedPoint ==
    Rebuilt => /\ ~Raised(res.again)
               /\ res.again.val = res.code

\* What the code does: the round trip returns the same code for every node
\* that shows no unit, and rebuilding faults for every node that shows one.
C26_FixedPointWithoutUnit ==
    (Rebuilt /\ ~ShowsUnit(args.ast)) => /\ ~Raised(res.again)
                                         /\ res.again.val = res.code

C26_RebuildFaultsOnUnit ==
    (Rebuilt /\ ShowsUnit(args.ast)) => res.rebuilt = Raise("AttributeError")

C26_Reached_LiteralWithUnitFaults ==
    /\ Rebuilt
    /\ args.ast = NumberLiteralExpr_init(1, FALSE, "None", "ether")
    /\ res.code = "1 ether"
    /\ Raised(res.rebuilt)

C26_Reached_HexOperandsRoundTrip ==
    /\ Rebuilt
    /\ args.ast.cls = "FunctionCallExpr"
    /\ res.code = "0x2 * 1"
    /\ res.again = Ret("0x2 * 1")

-----------------------------------------------------------------------------
(* Statements right after construction.                                     *)

NewlyConstructed == op = "Statement.__init__"

\* the attributes of the claim and the values after construction
FreshAttributes(obj) ==
    /\ getattr(obj, "before_analysis") = Ret(NoneVal)
    /\ getattr(obj, "after_analysis") = Ret(NoneVal)
    /\ getattr(obj, "parent") = Ret(NoneVal)
    /\ ~Raised(getattr(obj, "pre_statements")) /\ Len(obj.pre_statements) = 0
    /\ ~Raised(getattr(obj, "modified_values")) /\ Len(obj.modified_values) = 0
    /\ ~Raised(getattr(obj, "read_values")) /\ obj.read_values = {}

\* C27: every statement of every variant, tuple-destructuring declarations
\* included, right after construction has both analysis slots None, no
\* pre-statements, no parent and empty modified and read sets.
C27_Claimed_EveryStatementStartsFresh ==
    NewlyConstructed => FreshAttributes(res.val)

\* What the code does: every class but TupleVariableDeclarationStatement
\* starts with these values; a tuple declaration has the attributes vs and
\* expr and no other, so reading any of the six raises AttributeError.
C27_StatementsButTupleDeclarationsStartFresh ==
    (NewlyConstructed /\ args.cls # "TupleVariableDeclarationStatement")
        => FreshAttributes(res.val)

C27_TupleDeclarationHasNoStatementAttributes ==
    (NewlyConstructed /\ args.cls = "TupleVariableDeclarationStatement")
        => /\ DOMAIN res.val = {"cls", "vs", "expr"}
           /\ \A name \in {"before_analysis", "after_analysis", "parent", "pre_statements",
                           "modified_values", "read_values"} :
                    getattr(res.val, name) = Raise("AttributeError")

C27_Reached_TupleDeclarationWithoutSlots ==
    /\ NewlyConstructed
    /\ args.cls = "TupleVariableDeclarationStatement"
    /\ Len(args.a.vs.items) = 1
    /\ Raised(getattr(res.val, "pre_statements"))

C27_Reached_FreshForStatement ==
    /\ NewlyConstructed
    /\ args.cls = "ForStatement"
    /\ args.a.init = NoneVal
    /\ res.val.body = Stmt(1)
    /\ FreshAttributes(res.val)

-----------------------------------------------------------------------------
(* Lvalues.                                                                 *)

\* the links through which an expression stays on the left-hand side
PassesLvalue(link) ==
    link \in {Link("IndexExpr", "arr"), Link("MemberAccessExpr", "expr"),
              Link("TupleExpr", "elements")}

\* the way upwards reaches the left-hand side of an assignment through such
\* links only
ReachesLhs(chain) ==
    \E k \in 1..Len(chain) :
        /\ chain[k].cls \in {"AssignmentStatement", "CircuitInputStatement"}
        /\ chain[k].field = "lhs"
        /\ \A j \in 1..(k - 1) : PassesLvalue(chain[j])

\* C28: a location or tuple expression is an lvalue exactly when the parent
\* links, followed only through the array of an index expression, the object
\* of a member access or an element of a tuple, reach the left-hand side of
\* an assignment; is_rvalue is the negation of is_lvalue.
C28_LvalueExactlyBelowLhs ==
    op = "is_lvalue" =>
        /\ res.is_lvalue = ReachesLhs(args.chain)
        /\ res.is_rvalue = ~res.is_lvalue

C28_Witness_ArrayOfIndexedLhs ==
    /\ op = "is_lvalue"
    /\ args.chain = <<Link("IndexExpr", "arr"), Link("TupleExpr", "elements"),
                      Link("AssignmentStatement", "lhs")>>
    /\ res.is_lvalue

C28_Reached_KeyOfIndexedLhsIsRvalue ==
    /\ op = "is_lvalue"
    /\ args.chain = <<Link("IndexExpr", "key"), Link("AssignmentStatement", "lhs")>>
    /\ res.is_rvalue

-----------------------------------------------------------------------------
(* The enclosing function, contract and assignment of a node.               *)

Related == op = "get_related"

\* the class of the i-th node on the way up, the node itself being the first
ClassOnWay(i) == IF i = 1 THEN args.cls ELSE args.chain[i - 1].cls

\* the nearest node of one of the classes on the way up, 0 if there is none
Nearest(classes) ==
    LET found == {i \in 1..(Len(args.chain) + 1) : ClassOnWay(i) \in classes}
    IN IF found = {} THEN 0 ELSE CHOOSE i \in found : \A j \in found : i <= j

NearestAssignment == Nearest({"AssignmentStatement", "CircuitInputStatement"})

\* the nearest enclosing assignment holds the way up in its left-hand side
BelowLhs ==
    /\ NearestAssignment > 1
    /\ args.chain[NearestAssignment - 1].field = "lhs"

RootIsSourceUnit == ClassOnWay(Len(args.chain) + 1) = "SourceUnit"

\* C29: on every tree without a cycle the accessors return without a fault:
\* the nearest enclosing function or None, the nearest enclosing contract or
\* None, and whether the nearest enclosing assignment is reached through its
\* left-hand side (false without an enclosing assignment).
C29_Claimed_AccessorsNeverFault ==
    Related =>
        /\ res.function = Ret(Nearest({"ConstructorOrFunctionDefinition"}))
        /\ res.contract = Ret(Nearest({"ContractDefinition"}))
        /\ res.lefthand = Ret(BelowLhs)

\* What the code does: each accessor returns the claimed value when it
\* returns, and it raises exactly when the way up ends at a root without
\* meeting a node on which its loop stops.
C29_AccessorsWhenTheyReturn ==
    Related =>
        /\ ~Raised(res.function) => res.function.val = Nearest({"ConstructorOrFunctionDefinition"})
        /\ ~Raised(res.contract) => res.contract.val = Nearest({"ContractDefinition"})
        /\ ~Raised(res.lefthand) => res.lefthand.val = BelowLhs

C29_AccessorsFaultAtTheRoot ==
    Related =>
        /\ Raised(res.function)
              <=> Nearest({"ConstructorOrFunctionDefinition", "ContractDefinition"}) = 0
        /\ Raised(res.contract) <=> Nearest({"ContractDefinition", "SourceUnit"}) = 0
        /\ Raised(res.lefthand)
              <=> (NearestAssignment = 0 /\ Nearest({"SourceUnit"}) = 0)

C29_Reached_TopLevelStructFaults ==
    /\ Related
    /\ args.cls = "VariableDeclaration"
    /\ args.chain = <<Link("StructDefinition", "members"), Link("SourceUnit", "units")>>
    /\ res.function = Raise("AttributeError")
    /\ res.contract = Ret(0)
    /\ res.lefthand = Ret(FALSE)

C29_Reached_LhsInsideFunction ==
    /\ Related
    /\ RootIsSourceUnit
    /\ Len(args.chain) = 5
    /\ res.function = Ret(4)
    /\ res.contract = Ret(5)
    /\ res.lefthand = Ret(TRUE)

-----------------------------------------------------------------------------
(* The privacy classification under assignments to requires_verification.   *)

Assigned == op = "requires_verification"

\* steps i+1..j are all assignments to requires_verification
OnlyAssignments(i, j) == \A k \in (i + 1)..j : IsAssignment(args.steps[k])

\* what the claim says of step i, res[i] being read before it and res[i + 1]
\* after it
ClaimedOfAssignment(i) ==
    /\ args.steps[i] = "requires_verification = False"
          => res[i + 1].privacy_type = res[i].privacy_type
    /\ args.steps[i] = "requires_verification = True"
          => \A j \in i..Len(args.steps) :
                OnlyAssignments(i, j) => res[j + 1].requires_verification
    /\ res[i].privacy_type \in {MPC, TEE} => res[i + 1].privacy_type = res[i].privacy_type

C30_AssigningTrueAlwaysSetsZKP ==
    Assigned =>
        /\ res[1].privacy_type = PUB
        /\ \A i \in 1..Len(args.steps) :
              /\ args.steps[i] = "requires_verification = False" => res[i + 1] = res[i]
              /\ args.steps[i] = "requires_verification = True"
                    => /\ res[i + 1].privacy_type = ZKP
                       /\ res[i + 1].requires_verification

C30_OnlyRaisedWithoutOtherWrites ==
    (Assigned /\ OnlyAssignments(0, Len(args.steps))) =>
        \A i \in 1..Len(args.steps) :
            /\ ClaimedOfAssignment(i)
            /\ res[i].privacy_type <= res[i + 1].privacy_type
            /\ res[i + 1].privacy_type \in {PUB, ZKP}

C30_Reached_TeeLoweredToZkp ==
    /\ Assigned
    /\ args.steps = <<"privacy_type = TEE", "requires_verification = True">>
    /\ res[2].privacy_type = TEE
    /\ res[3].privacy_type = ZKP

C30_Reached_RaisedOnceByAssignments ==
    /\ Assigned
    /\ args.steps = <<"requires_verification = False", "requires_verification = True",
                      "requires_verification = False">>
    /\ res[2].privacy_type = PUB
    /\ res[4].privacy_type = ZKP
=============================================================================
